---- MODULE Spec2Model ----
(***************************************************************************)
(* Model of the code indexer: file discovery under ignore rules            *)
(* (preprocessing.load_files), grammar lookup (treesitter.Treesitter),     *)
(* entity extraction (Treesitter.parse, process_code_content), reference   *)
(* resolution (find_references), the merge step (map_references_to_data),  *)
(* the incremental coordinator (update_codebase.process_changed_files),    *)
(* the store update (update_embeddings) and the polling loop (monitor).    *)
(*                                                                         *)
(* A file's content is represented by the syntax tree tree-sitter returns  *)
(* for it: a sequence of nodes in document order, each with its kind, its  *)
(* parent (0 for the root), its text and its 0-based start point.          *)
(***************************************************************************)
EXTENDS Naturals, Sequences, FiniteSets, TLC

VARIABLES
  entry,            \* the public function that was called
  pc,               \* position inside it
  outcome,          \* "running", "return", or the exception raised
  installed,        \* grammar packages whose import succeeded
  disk,             \* local file system: path -> content, "absent", "undecodable"
  files,            \* the batch: sequence of [path, language, content]
  next_file,                \* index of the extraction loop
  all_class_data, all_method_data, all_class_names, all_method_names,
  parsed,           \* what Treesitter.parse returned for the last file
  parsed_tree,      \* the content it was given
  fr_files,         \* find_references: the files, grouped by language
  fr_next,             \* find_references: index of the file being walked
  fr_class_names, fr_method_names,   \* find_references: its name sets
  references,       \* find_references: the maps being filled
  result,           \* the value returned
  ts_language,      \* create_treesitter: the language tag asked for
  extractor,        \* create_treesitter: the Treesitter built ("" when none)
  fs_entries,       \* load_files: the entries under the root
  gitignore,        \* load_files: the .gitignore files under the root
  ignore_spec,      \* load_files: the compiled matcher (its pattern lines)
  lf_todo,          \* load_files: entries rglob has not yielded yet
  lf_path,          \* load_files: the entry of the current iteration
  lf_files,         \* load_files: the list being built
  changed_files,    \* process_changed_files: the (status, path) tuples
  pcf_next,         \* process_changed_files: index of the next tuple
  fetched,          \* process_changed_files: what file_content answered, per tuple
  pcc_calls,        \* process_code_content: the arguments of the calls to make
  pcc_returns,      \* process_code_content: what the calls made have returned
  store,            \* update_embeddings: the nodes of the graph database
  ue_classes,       \* update_embeddings: the class records it was given
  ue_methods,       \* update_embeddings: the method records it was given
  ue_delete,        \* update_embeddings: file paths the delete loop has yet to do
  state_file,       \* monitor: what STATE_FILE holds
  head_sha,         \* monitor: the head commit of the current iteration
  last_sha,         \* monitor: what load_state returned in the current iteration
  polls             \* monitor: iterations of the loop that have ended

-----------------------------------------------------------------------------
(* Bounds of the model *)

\* Largest number of files in one batch (full corpus or in-memory batch).
MaxFiles == 2

\* Largest number of (status, path) tuples in one change list.
MaxChanges == 2

\* Largest number of class records, and of method records, given to
\* map_references_to_data when it is called on its own.
MaxRecords == 2

-----------------------------------------------------------------------------
(* treesitter.py: language tags and the grammar registry *)

\* class LanguageEnum(Enum): the members and their values.
LanguageEnum == {"java", "python", "rust", "javascript", "unknown"}

\* The individually imported grammar packages (each import may fail and
\* leave the module variable None).
GrammarPackages == {"python", "java", "rust", "javascript"}

\* LANGUAGE_QUERIES: the node kinds each query captures.
\*   class_name_kind / method_name_kind: the kind of the captured name child,
\*   class_kinds / method_kinds: the kinds of the declaration node,
\*   capture: the capture name the method query uses.
LANGUAGE_QUERIES ==
  [ java |->
      [ class_kinds  |-> {"class_declaration"},
        class_name_kind |-> "identifier",
        method_kinds |-> {"method_declaration", "constructor_declaration"},
        method_name_kind |-> "identifier",
        capture |-> "method.name",
        doc_kinds |-> {"block_comment"},
        doc_parent |-> "" ],
    python |->
      [ class_kinds  |-> {"class_definition"},
        class_name_kind |-> "identifier",
        method_kinds |-> {"function_definition"},
        method_name_kind |-> "identifier",
        capture |-> "function.name",
        doc_kinds |-> {"string"},
        doc_parent |-> "expression_statement" ],
    rust |->
      [ class_kinds  |-> {"struct_item"},
        class_name_kind |-> "type_identifier",
        method_kinds |-> {"function_item"},
        method_name_kind |-> "identifier",
        capture |-> "function.name",
        doc_kinds |-> {"line_comment", "block_comment"},
        doc_parent |-> "" ],
    javascript |->
      [ class_kinds  |-> {"class_declaration"},
        class_name_kind |-> "identifier",
        method_kinds |-> {"method_definition"},
        method_name_kind |-> "property_identifier",
        capture |-> "method.name",
        doc_kinds |-> {"comment"},
        doc_parent |-> "" ] ]

\* preprocessing.py: REFERENCE_IDENTIFIERS, the per-language kinds of a class
\* identifier, of a call, and the call's field holding the callee.
REFERENCE_IDENTIFIERS ==
  [ python     |-> [class |-> "identifier", method |-> "call",
                    child_field_name |-> "function"],
    java       |-> [class |-> "identifier", method |-> "method_invocation",
                    child_field_name |-> "name"],
    javascript |-> [class |-> "identifier", method |-> "call_expression",
                    child_field_name |-> "function"],
    rust       |-> [class |-> "identifier", method |-> "call_expression",
                    child_field_name |-> "function"],
    go         |-> [class |-> "type_identifier", method |-> "call_expression",
                    child_field_name |-> "function"] ]

-----------------------------------------------------------------------------
(* Syntax trees *)

Nd(k, p, t, l, c) == [kind |-> k, parent |-> p, text |-> t, line |-> l, col |-> c]

\* class A {\n  /* doc m */\n  void m() {}\n}
JavaDecl ==
  << Nd("program", 0, "class A { /* doc m */ void m() {} }", 0, 0),
     Nd("class_declaration", 1, "class A { /* doc m */ void m() {} }", 0, 0),
     Nd("class", 2, "class", 0, 0),
     Nd("identifier", 2, "A", 0, 6),
     Nd("class_body", 2, "{ /* doc m */ void m() {} }", 0, 8),
     Nd("{", 5, "{", 0, 8),
     Nd("block_comment", 5, "/* doc m */", 1, 2),
     Nd("method_declaration", 5, "void m() {}", 2, 2),
     Nd("void_type", 8, "void", 2, 2),
     Nd("identifier", 8, "m", 2, 7),
     Nd("formal_parameters", 8, "()", 2, 8),
     Nd("block", 8, "{}", 2, 11),
     Nd("}", 5, "}", 3, 0) >>

\* class B {\n  void n() {\n    m();\n  }\n}
JavaCall ==
  << Nd("program", 0, "class B { void n() { m(); } }", 0, 0),
     Nd("class_declaration", 1, "class B { void n() { m(); } }", 0, 0),
     Nd("class", 2, "class", 0, 0),
     Nd("identifier", 2, "B", 0, 6),
     Nd("class_body", 2, "{ void n() { m(); } }", 0, 8),
     Nd("{", 5, "{", 0, 8),
     Nd("method_declaration", 5, "void n() { m(); }", 1, 2),
     Nd("void_type", 7, "void", 1, 2),
     Nd("identifier", 7, "n", 1, 7),
     Nd("formal_parameters", 7, "()", 1, 8),
     Nd("block", 7, "{ m(); }", 1, 11),
     Nd("expression_statement", 11, "m();", 2, 4),
     Nd("method_invocation", 12, "m()", 2, 4),
     Nd("identifier", 13, "m", 2, 4),
     Nd("argument_list", 13, "()", 2, 5),
     Nd("}", 5, "}", 4, 0) >>

\* class A {\n  class B {\n    void m() { new A(); n(m); }\n  }\n}
JavaNested ==
  << Nd("program", 0, "class A { class B { void m() { new A(); n(m); } } }", 0, 0),
     Nd("class_declaration", 1, "class A { class B { void m() { new A(); n(m); } } }", 0, 0),
     Nd("identifier", 2, "A", 0, 6),
     Nd("class_body", 2, "{ class B { void m() { new A(); n(m); } } }", 0, 8),
     Nd("class_declaration", 4, "class B { void m() { new A(); n(m); } }", 1, 2),
     Nd("identifier", 5, "B", 1, 8),
     Nd("class_body", 5, "{ void m() { new A(); n(m); } }", 1, 10),
     Nd("method_declaration", 7, "void m() { new A(); n(m); }", 2, 4),
     Nd("identifier", 8, "m", 2, 9),
     Nd("block", 8, "{ new A(); n(m); }", 2, 13),
     Nd("expression_statement", 10, "new A();", 2, 15),
     Nd("object_creation_expression", 11, "new A()", 2, 15),
     Nd("type_identifier", 12, "A", 2, 19),
     Nd("expression_statement", 10, "n(m);", 2, 24),
     Nd("method_invocation", 14, "n(m)", 2, 24),
     Nd("identifier", 15, "n", 2, 24),
     Nd("argument_list", 15, "(m)", 2, 25),
     Nd("identifier", 17, "m", 2, 26) >>

\* class A:\n    def m(self):\n        pass
PyDecl ==
  << Nd("module", 0, "class A: def m(self): pass", 0, 0),
     Nd("class_definition", 1, "class A: def m(self): pass", 0, 0),
     Nd("identifier", 2, "A", 0, 6),
     Nd("block", 2, "def m(self): pass", 1, 4),
     Nd("function_definition", 4, "def m(self): pass", 1, 4),
     Nd("identifier", 5, "m", 1, 8),
     Nd("parameters", 5, "(self)", 1, 9),
     Nd("identifier", 7, "self", 1, 10),
     Nd("block", 5, "pass", 2, 8) >>

\* def n():\n    m()
PyCall ==
  << Nd("module", 0, "def n(): m()", 0, 0),
     Nd("function_definition", 1, "def n(): m()", 0, 0),
     Nd("identifier", 2, "n", 0, 4),
     Nd("parameters", 2, "()", 0, 5),
     Nd("block", 2, "m()", 1, 4),
     Nd("expression_statement", 5, "m()", 1, 4),
     Nd("call", 6, "m()", 1, 4),
     Nd("identifier", 7, "m", 1, 4),
     Nd("argument_list", 7, "()", 1, 5) >>

\* "note"\ndef n(x: A):\n    pass
PyTyped ==
  << Nd("module", 0, "\"note\" def n(x: A): pass", 0, 0),
     Nd("expression_statement", 1, "\"note\"", 0, 0),
     Nd("string", 2, "\"note\"", 0, 0),
     Nd("function_definition", 1, "def n(x: A): pass", 1, 0),
     Nd("identifier", 4, "n", 1, 4),
     Nd("parameters", 4, "(x: A)", 1, 5),
     Nd("typed_parameter", 6, "x: A", 1, 6),
     Nd("identifier", 7, "x", 1, 6),
     Nd("type", 7, "A", 1, 9),
     Nd("identifier", 9, "A", 1, 9),
     Nd("block", 4, "pass", 2, 4) >>

\* class A {\n  m() {}\n}
JsDecl ==
  << Nd("program", 0, "class A { m() {} }", 0, 0),
     Nd("class_declaration", 1, "class A { m() {} }", 0, 0),
     Nd("identifier", 2, "A", 0, 6),
     Nd("class_body", 2, "{ m() {} }", 0, 8),
     Nd("{", 4, "{", 0, 8),
     Nd("method_definition", 4, "m() {}", 1, 2),
     Nd("property_identifier", 6, "m", 1, 2),
     Nd("formal_parameters", 6, "()", 1, 3),
     Nd("statement_block", 6, "{}", 1, 6),
     Nd("}", 4, "}", 2, 0) >>

\* // go\nm();
JsCall ==
  << Nd("program", 0, "// go m();", 0, 0),
     Nd("comment", 1, "// go", 0, 0),
     Nd("expression_statement", 1, "m();", 1, 0),
     Nd("call_expression", 3, "m()", 1, 0),
     Nd("identifier", 4, "m", 1, 0),
     Nd("arguments", 4, "()", 1, 1) >>

\* struct A;\n// doc m\nfn m() {}
RustDecl ==
  << Nd("source_file", 0, "struct A; // doc m fn m() {}", 0, 0),
     Nd("struct_item", 1, "struct A;", 0, 0),
     Nd("type_identifier", 2, "A", 0, 7),
     Nd("line_comment", 1, "// doc m", 1, 0),
     Nd("function_item", 1, "fn m() {}", 2, 0),
     Nd("identifier", 5, "m", 2, 3),
     Nd("parameters", 5, "()", 2, 4),
     Nd("block", 5, "{}", 2, 7) >>

\* fn n() {\n    m();\n}
RustCall ==
  << Nd("source_file", 0, "fn n() { m(); }", 0, 0),
     Nd("function_item", 1, "fn n() { m(); }", 0, 0),
     Nd("identifier", 2, "n", 0, 3),
     Nd("parameters", 2, "()", 0, 4),
     Nd("block", 2, "{ m(); }", 0, 7),
     Nd("expression_statement", 5, "m();", 1, 4),
     Nd("call_expression", 6, "m()", 1, 4),
     Nd("identifier", 7, "m", 1, 4),
     Nd("arguments", 7, "()", 1, 5) >>

\* // far\n\n// near1\n// near2\nfn n() {\n    // inner\n}\nfn m() {}
RustDoc ==
  << Nd("source_file", 0, "// far // near1 // near2 fn n() { // inner } fn m() {}", 0, 0),
     Nd("line_comment", 1, "// far", 0, 0),
     Nd("line_comment", 1, "// near1", 2, 0),
     Nd("line_comment", 1, "// near2", 3, 0),
     Nd("function_item", 1, "fn n() { // inner }", 4, 0),
     Nd("identifier", 5, "n", 4, 3),
     Nd("parameters", 5, "()", 4, 4),
     Nd("block", 5, "{ // inner }", 4, 7),
     Nd("line_comment", 8, "// inner", 5, 4),
     Nd("function_item", 1, "fn m() {}", 7, 0),
     Nd("identifier", 10, "m", 7, 3),
     Nd("parameters", 10, "()", 7, 4),
     Nd("block", 10, "{}", 7, 7) >>

\* def n():\n    "doc n"\ndef m():\n    pass
PyDoc ==
  << Nd("module", 0, "def n(): \"doc n\" def m(): pass", 0, 0),
     Nd("function_definition", 1, "def n(): \"doc n\"", 0, 0),
     Nd("identifier", 2, "n", 0, 4),
     Nd("parameters", 2, "()", 0, 5),
     Nd("block", 2, "\"doc n\"", 1, 4),
     Nd("expression_statement", 5, "\"doc n\"", 1, 4),
     Nd("string", 6, "\"doc n\"", 1, 4),
     Nd("function_definition", 1, "def m(): pass", 2, 0),
     Nd("identifier", 8, "m", 2, 4),
     Nd("parameters", 8, "()", 2, 5),
     Nd("block", 8, "pass", 3, 4) >>

\* The file contents of the model, by language, and the tree of each.
Contents ==
  [ java       |-> {"JavaDecl", "JavaCall", "JavaNested"},
    python     |-> {"PyDecl", "PyCall", "PyTyped"},
    javascript |-> {"JsDecl", "JsCall"},
    rust       |-> {"RustDecl", "RustCall"} ]

AllContents == UNION {Contents[l] : l \in DOMAIN Contents}

\* Further contents, given to process_code_content called on its own: files
\* with comments above and inside their declarations.
DocContents ==
  [ java       |-> {},
    python     |-> {"PyDoc"},
    javascript |-> {},
    rust       |-> {"RustDoc"} ]

AllDocContents == UNION {DocContents[l] : l \in DOMAIN DocContents}

Tree(c) ==
  CASE c = "JavaDecl"   -> JavaDecl
    [] c = "JavaCall"   -> JavaCall
    [] c = "JavaNested" -> JavaNested
    [] c = "PyDecl"     -> PyDecl
    [] c = "PyCall"     -> PyCall
    [] c = "PyTyped"    -> PyTyped
    [] c = "JsDecl"     -> JsDecl
    [] c = "JsCall"     -> JsCall
    [] c = "RustDecl"   -> RustDecl
    [] c = "RustCall"   -> RustCall
    [] c = "RustDoc"    -> RustDoc
    [] c = "PyDoc"      -> PyDoc

-----------------------------------------------------------------------------
(* tree_sitter.Node: navigation *)

NodeIds(t) == 1..Len(t)

\* A function on 1..n as the tuple of its values.
AsSeq(f) == f \o << >>

\* node.children, in document order.
Children(t, n) == {i \in NodeIds(t) : t[i].parent = n}

\* A set of node ids as the sequence of its members in document order.
InOrder(S) ==
  AsSeq([k \in 1..Cardinality(S) |->
           CHOOSE x \in S : Cardinality({y \in S : y < x}) = k - 1])

\* node.prev_sibling (0 when there is none).
PrevSibling(t, n) ==
  LET before == {i \in Children(t, t[n].parent) : i < n}
  IN  IF n = 1 \/ before = {} THEN 0
      ELSE CHOOSE x \in before : \A y \in before : y <= x

\* The loop of Treesitter._is_descendant_of from `current` upward: true when
\* the climb over the parents meets `ancestor` before it leaves the root.
Climb(t, current, ancestor) ==
  LET up[c \in 0..Len(t)] ==
        IF c = 0 THEN FALSE
        ELSE IF c = ancestor THEN TRUE
        ELSE up[t[c].parent]
  IN  up[current]

\* A variant that compares positions instead of climbing: the candidate
\* starts before the node in the file.
_is_descendant_of_by_position(t, node, ancestor) == ancestor < node

\* Treesitter._is_descendant_of: the climb starts at node.parent.
_is_descendant_of(t, node, ancestor) == Climb(t, t[node].parent, ancestor)

\* The nodes of the subtree rooted at n, n included.
Subtree(t, n) == {i \in NodeIds(t) : i = n \/ Climb(t, t[i].parent, n)}

\* The child a query's "name:" field selects: the first child of that kind.
NameChild(t, n, kind) ==
  LET c == {i \in Children(t, n) : t[i].kind = kind}
  IN  IF c = {} THEN 0 ELSE CHOOSE x \in c : \A y \in c : x <= y

-----------------------------------------------------------------------------
(* treesitter.py: the three queries and Treesitter.parse *)

\* class_query.captures(scope)["class.name"]: the captured name nodes.
ClassCaptures(lang, t, scope) ==
  LET q == LANGUAGE_QUERIES[lang]
  IN  InOrder({i \in Subtree(t, scope) :
                 /\ t[i].parent \in Subtree(t, scope)
                 /\ t[t[i].parent].kind \in q.class_kinds
                 /\ i = NameChild(t, t[i].parent, q.class_name_kind)})

\* method_query.captures(scope): the captured name nodes under the capture
\* name the language's query uses ('method.name' or 'function.name').
MethodCaptures(lang, t, scope) ==
  LET q == LANGUAGE_QUERIES[lang]
  IN  InOrder({i \in Subtree(t, scope) :
                 /\ t[i].parent \in Subtree(t, scope)
                 /\ t[t[i].parent].kind \in q.method_kinds
                 /\ i = NameChild(t, t[i].parent, q.method_name_kind)})

\* doc_query.captures(scope)["comment"].
DocCaptures(lang, t, scope) ==
  LET q == LANGUAGE_QUERIES[lang]
  IN  InOrder({i \in Subtree(t, scope) :
                 /\ t[i].kind \in q.doc_kinds
                 /\ \/ q.doc_parent = ""
                    \/ /\ t[i].parent \in Subtree(t, scope)
                       /\ t[t[i].parent].kind = q.doc_parent})

\* The node kinds the backward scan passes over without stopping.
DocScanKinds == {"comment", "block_comment", "line_comment", "expression_statement"}

\* "for cap_node in captures: doc_comment = cap_node.text + '\n' + doc_comment":
\* each captured text is put in front of what was gathered before it.
Prepend(t, caps, doc) ==
  AsSeq([k \in 1..Len(caps) |-> t[caps[Len(caps) + 1 - k]].text]) \o doc

\* Treesitter._extract_doc_comment: the loop over the preceding siblings.
\* The doc comment is the sequence of the comment texts that the code joins
\* with newlines. above[c] is what the loop gathers from sibling c upward;
\* since every step prepends, it ends in front of what was gathered below.
DocScan(lang, t, current_node, doc_comment) ==
  LET above[c \in 0..Len(t)] ==
        IF c = 0 THEN << >>
        ELSE LET captures == DocCaptures(lang, t, c)
             IN  IF captures # << >>
                 THEN above[PrevSibling(t, c)] \o Prepend(t, captures, << >>)
                 ELSE IF t[c].kind \notin DocScanKinds
                 THEN << >>
                 ELSE above[PrevSibling(t, c)]
  IN  above[current_node] \o doc_comment

_extract_doc_comment(lang, t, node) == DocScan(lang, t, PrevSibling(t, node), << >>)

\* Treesitter._extract_methods_in_class: the texts of the method
\* declarations the method query finds inside the class node.
_extract_methods_in_class(lang, t, class_node) ==
  LET caps == MethodCaptures(lang, t, class_node)
  IN  AsSeq([k \in 1..Len(caps) |-> t[t[caps[k]].parent].text])

\* A variant that keeps the last class node, in capture order, that is an
\* ancestor (the loop without its break).
FirstAncestor_last_match(t, class_nodes, method_node) ==
  LET hits == {k \in 1..Len(class_nodes) :
                 _is_descendant_of(t, method_node, class_nodes[k])}
  IN  IF hits = {} THEN 0
      ELSE class_nodes[CHOOSE k \in hits : \A j \in hits : j <= k]

\* The enclosing class of a method node: the first class node, in capture
\* order, that is an ancestor (0 when there is none).
FirstAncestor(t, class_nodes, method_node) ==
  LET hits == {k \in 1..Len(class_nodes) :
                 _is_descendant_of(t, method_node, class_nodes[k])}
  IN  IF hits = {} THEN 0
      ELSE class_nodes[CHOOSE k \in hits : \A j \in hits : k <= j]

\* Treesitter.parse: the class results and the method results. class_name
\* of a method is "" where the code leaves None.
parse(lang, t) ==
  LET ccaps == ClassCaptures(lang, t, 1)
      class_nodes == AsSeq([k \in 1..Len(ccaps) |-> t[ccaps[k]].parent])
      mcaps == MethodCaptures(lang, t, 1)
  IN  [ classes |-> AsSeq(
          [k \in 1..Len(ccaps) |->
             [ name |-> t[ccaps[k]].text,
               node |-> class_nodes[k],
               source_code |-> t[class_nodes[k]].text,
               method_declarations |->
                 _extract_methods_in_class(lang, t, class_nodes[k]) ]]),
        methods |-> AsSeq(
          [k \in 1..Len(mcaps) |->
             LET method_node == t[mcaps[k]].parent
                 owner == FirstAncestor(t, class_nodes, method_node)
             IN  [ name |-> t[mcaps[k]].text,
                   node |-> method_node,
                   class_node |-> owner,
                   class_name |->
                     IF owner = 0 THEN ""
                     ELSE t[NameChild(t, owner,
                              LANGUAGE_QUERIES[lang].class_name_kind)].text,
                   doc_comment |-> _extract_doc_comment(lang, t, method_node),
                   method_source_code |-> t[method_node].text ]]) ]

\* The language each content of the model is written in.
LanguageOf(c) ==
  CHOOSE l \in DOMAIN Contents : c \in Contents[l] \cup DocContents[l]

\* Treesitter.parse of an extractor of each language on each content of
\* that language, evaluated once.
ParseTable ==
  [l \in DOMAIN Contents |->
     [c \in Contents[l] \cup DocContents[l] |-> parse(l, Tree(c))]]

\* treesitter_parser.parse(file_bytes) for an extractor of `language`.
ParseContent(language, content) == ParseTable[language][content]

-----------------------------------------------------------------------------
(* Treesitter.__init__ / create_treesitter *)

\* Treesitter._get_parser_and_language: the conditional chain on the
\* language value; a grammar is returned only when the value is one of the
\* four names and its package was imported.
_get_parser_and_language(language_name, pkgs) ==
  IF language_name \in {"python", "java", "rust", "javascript"}
     /\ language_name \in pkgs
  THEN "ok" ELSE "ValueError"

\* A variant of the constructor that validates registered languages only.
create_treesitter_unchecked(language, pkgs) ==
  IF language \in DOMAIN LANGUAGE_QUERIES
  THEN _get_parser_and_language(language, pkgs)
  ELSE "ok"

\* Treesitter.__init__: "ok" when an extractor is constructed, "ValueError"
\* when the constructor raises ValueError("Unsupported language: ...").
create_treesitter(language, pkgs) ==
  IF _get_parser_and_language(language, pkgs) # "ok" THEN "ValueError"
  ELSE IF language \notin DOMAIN LANGUAGE_QUERIES THEN "ValueError"
  ELSE "ok"

-----------------------------------------------------------------------------
(* preprocessing.py: process_code_content *)

\* A variant whose two record lists live outside the function: each call
\* returns the records of the earlier calls as well.
process_code_content_shared_lists(file_path, content, language) ==
  LET nodes == ParseContent(language, content)
      earlier == IF pcc_returns = << >>
                 THEN [class_data |-> << >>, method_data |-> << >>]
                 ELSE pcc_returns[Len(pcc_returns)]
  IN  [ class_data |->
          earlier.class_data \o
          [k \in 1..Len(nodes.classes) |->
             [ file_path |-> file_path,
               class_name |-> nodes.classes[k].name,
               constructor_declaration |-> "",
               method_declarations |-> nodes.classes[k].method_declarations,
               source_code |-> nodes.classes[k].source_code,
               references |-> << >> ]],
        method_data |->
          earlier.method_data \o
          [k \in 1..Len(nodes.methods) |->
             [ file_path |-> file_path,
               class_name |-> nodes.methods[k].class_name,
               name |-> nodes.methods[k].name,
               doc_comment |-> nodes.methods[k].doc_comment,
               source_code |-> nodes.methods[k].method_source_code,
               references |-> << >> ]],
        class_names |-> {nodes.classes[k].name : k \in 1..Len(nodes.classes)},
        method_names |-> {nodes.methods[k].name : k \in 1..Len(nodes.methods)} ]

\* The class and method records of one file and the names it contributes.
\* method_declarations and doc_comment are kept as the sequences of texts
\* the code joins with a separator.
process_code_content(file_path, content, language) ==
  LET nodes == ParseContent(language, content)
      class_nodes == nodes.classes
      method_nodes == nodes.methods
  IN  [ class_data |->
          [k \in 1..Len(class_nodes) |->
             [ file_path |-> file_path,
               class_name |-> class_nodes[k].name,
               constructor_declaration |-> "",
               method_declarations |-> class_nodes[k].method_declarations,
               source_code |-> class_nodes[k].source_code,
               references |-> << >> ]],
        method_data |->
          [k \in 1..Len(method_nodes) |->
             [ file_path |-> file_path,
               class_name |-> method_nodes[k].class_name,
               name |-> method_nodes[k].name,
               doc_comment |-> method_nodes[k].doc_comment,
               source_code |-> method_nodes[k].method_source_code,
               references |-> << >> ]],
        class_names |-> {class_nodes[k].name : k \in 1..Len(class_nodes)},
        method_names |-> {method_nodes[k].name : k \in 1..Len(method_nodes)} ]

-----------------------------------------------------------------------------
(* preprocessing.py: find_references *)

\* The parent kinds the walk accepts for a class use and for a call.
ClassParentKinds == {"type", "class_type", "object_creation_expression"}
CallParentKinds == {"call_expression", "method_invocation"}

NoRefs == [class |-> << >>, method |-> << >>]

\* references[kind][name].append(ref) on a defaultdict(list).
AddRef(map, name, ref) ==
  [k \in (DOMAIN map) \cup {name} |->
     IF k = name
     THEN (IF name \in DOMAIN map THEN Append(map[name], ref) ELSE <<ref>>)
     ELSE map[k]]

\* A variant of the walk that records every identifier in a reference
\* position, tracked or not.
IsTracked_any(name, names) == TRUE

\* "name in class_names" / "name in method_names"
IsTracked(name, names) == name \in names

\* The body of the walk for one popped (node, parent) pair.
VisitNode(t, node, file_path, class_names, method_names, refs) ==
  IF t[node].kind # "identifier" THEN refs
  ELSE LET name == t[node].text
           parent == t[node].parent
           ref == [ file |-> file_path,
                    line |-> t[node].line + 1,
                    column |-> t[node].col + 1,
                    text |-> IF parent = 0 THEN "" ELSE t[parent].text ]
           c == IF IsTracked(name, class_names) /\ parent # 0
                   /\ t[parent].kind \in ClassParentKinds
                THEN AddRef(refs.class, name, ref) ELSE refs.class
           m == IF IsTracked(name, method_names) /\ parent # 0
                   /\ t[parent].kind \in CallParentKinds
                THEN AddRef(refs.method, name, ref) ELSE refs.method
       IN  [class |-> c, method |-> m]

\* The single pass over one tree with an explicit stack: pop the last
\* entry, visit it, push its children.
RECURSIVE Walk(_, _, _, _, _, _)
Walk(t, stack, file_path, class_names, method_names, refs) ==
  IF stack = << >> THEN refs
  ELSE LET node == stack[Len(stack)]
           rest == SubSeq(stack, 1, Len(stack) - 1)
       IN  Walk(t, rest \o InOrder(Children(t, node)), file_path,
                class_names, method_names,
                VisitNode(t, node, file_path, class_names, method_names, refs))

WalkFile(content, file_path, class_names, method_names, refs) ==
  Walk(Tree(content), <<1>>, file_path, class_names, method_names, refs)

\* files_by_language of find_references, flattened: the files grouped by
\* language, languages in order of first appearance.
RECURSIVE LanguagesInOrder(_)
LanguagesInOrder(file_list) ==
  IF file_list = << >> THEN << >>
  ELSE LET l == Head(file_list).language
           IsOther(f) == f.language # l
       IN  <<l>> \o LanguagesInOrder(SelectSeq(Tail(file_list), IsOther))

RECURSIVE ConcatGroups(_, _)
ConcatGroups(langs, file_list) ==
  IF langs = << >> THEN << >>
  ELSE LET IsLang(f) == f.language = Head(langs)
       IN  SelectSeq(file_list, IsLang) \o ConcatGroups(Tail(langs), file_list)

GroupByLanguage(file_list) == ConcatGroups(LanguagesInOrder(file_list), file_list)

-----------------------------------------------------------------------------
(* preprocessing.py: map_references_to_data *)

\* list({key(x): x for x in data}.values()), keys[i] being the key of
\* data[i]: one record per key, at the position of the key's first record,
\* holding the key's last record.
DictValues(data, keys) ==
  LET firsts == {i \in 1..Len(data) :
                   \A j \in 1..(i - 1) : keys[j] # keys[i]}
      order == InOrder(firsts)
      Last(i) == CHOOSE j \in 1..Len(data) :
                   /\ keys[j] = keys[i]
                   /\ \A k \in 1..Len(data) : keys[k] = keys[i] => k <= j
  IN  [n \in 1..Len(order) |-> data[Last(order[n])]]

ClassKey(cd) == cd.class_name

\* A variant that keys the method dictionary by the method name alone.
MethodKey_name_only(md) == md.name

MethodKey(md) == <<md.class_name, md.name>>

map_references_to_data(class_data, method_data, refs_by_name) ==
  LET cs == DictValues(class_data,
                       [i \in 1..Len(class_data) |-> ClassKey(class_data[i])])
      ms == DictValues(method_data,
                       [i \in 1..Len(method_data) |-> MethodKey(method_data[i])])
  IN  [ classes |->
          [n \in 1..Len(cs) |->
             IF cs[n].class_name \in DOMAIN refs_by_name.class
             THEN [cs[n] EXCEPT !.references = refs_by_name.class[cs[n].class_name]]
             ELSE cs[n]],
        methods |->
          [n \in 1..Len(ms) |->
             IF ms[n].name \in DOMAIN refs_by_name.method
             THEN [ms[n] EXCEPT !.references = refs_by_name.method[ms[n].name]]
             ELSE ms[n]] ]

-----------------------------------------------------------------------------
(* preprocessing.py: get_language_from_extension *)

\* FILE_EXTENSION_LANGUAGE_MAP: extension -> the LanguageEnum member the
\* dictionary display names (JAVA, PYTHON, JAVASCRIPT, RUST, GO), by value.
FILE_EXTENSION_LANGUAGE_MAP ==
  (".java" :> "java") @@ (".py" :> "python") @@ (".js" :> "javascript")
    @@ (".rs" :> "rust") @@ (".go" :> "go")

\* The dictionary is built on every call, and naming a member the enum does
\* not define raises AttributeError before the lookup; otherwise dict.get
\* returns the tag or None.
get_language_from_extension(file_ext) ==
  IF \E e \in DOMAIN FILE_EXTENSION_LANGUAGE_MAP :
       FILE_EXTENSION_LANGUAGE_MAP[e] \notin LanguageEnum
  THEN "AttributeError"
  ELSE IF file_ext \in DOMAIN FILE_EXTENSION_LANGUAGE_MAP
  THEN FILE_EXTENSION_LANGUAGE_MAP[file_ext]
  ELSE "None"

-----------------------------------------------------------------------------
(* State *)

pipeVars == << installed, disk, files, next_file, all_class_data, all_method_data,
               all_class_names, all_method_names, parsed, parsed_tree,
               fr_files, fr_next, fr_class_names, fr_method_names, references >>

regVars == << ts_language, extractor >>

discVars == << fs_entries, gitignore, ignore_spec, lf_todo, lf_path, lf_files >>

pcfVars == << changed_files, pcf_next, fetched >>

pccVars == << pcc_calls, pcc_returns >>

ueVars == << store, ue_classes, ue_methods, ue_delete >>

monVars == << state_file, head_sha, last_sha, polls >>

vars == << entry, pc, outcome, result, pipeVars, regVars, discVars, pcfVars,
          pccVars, ueVars, monVars >>

\* The languages a file of a batch is tagged with.
FileLanguages == {"java", "python", "javascript", "rust"}

Ext(language) ==
  CASE language = "java" -> ".java"
    [] language = "python" -> ".py"
    [] language = "javascript" -> ".js"
    [] language = "rust" -> ".rs"

\* The path of the k-th file of a batch.
PathOf(k, language) == [name |-> k, ext |-> Ext(language)]

NoParse == [classes |-> << >>, methods |-> << >>]
NoResult == [classes |-> << >>, methods |-> << >>]

NoEntry == [rel |-> << >>, is_file |-> FALSE]

RegIdle == ts_language = "" /\ extractor = ""

DiscIdle ==
  /\ fs_entries = {} /\ gitignore = << >> /\ ignore_spec = << >>
  /\ lf_todo = {} /\ lf_path = NoEntry /\ lf_files = << >>

PcfIdle == changed_files = << >> /\ pcf_next = 1 /\ fetched = << >>

PccIdle == pcc_calls = << >> /\ pcc_returns = << >>

UeIdle == store = << >> /\ ue_classes = << >> /\ ue_methods = << >> /\ ue_delete = << >>

MonIdle == state_file = "absent" /\ head_sha = "None" /\ last_sha = "None" /\ polls = 0

PipeInit ==
  /\ next_file = 1
  /\ all_class_data = << >> /\ all_method_data = << >>
  /\ all_class_names = {} /\ all_method_names = {}
  /\ parsed = NoParse /\ parsed_tree = ""
  /\ fr_files = << >> /\ fr_next = 1
  /\ fr_class_names = {} /\ fr_method_names = {}
  /\ references = NoRefs

\* What the local disk may hold at the path of a file of `language`.
DiskChoices ==
  {[language |-> l, on_disk |-> c] :
     l \in FileLanguages, c \in AllContents \cup {"absent", "undecodable"}}

FileOnDisk == {ch \in DiskChoices :
                 ch.on_disk \in Contents[ch.language] \cup {"absent", "undecodable"}}

\* The grammar imports of a run of the pipeline: all succeeded, or all
\* but one.
InstallChoices ==
  {GrammarPackages} \cup {GrammarPackages \ {l} : l \in GrammarPackages}

\* process_codebase(files): the (path, language) pairs of files on disk.
InitProcessCodebase ==
  /\ entry = "process_codebase" /\ pc = "extract" /\ outcome = "running"
  /\ result = NoResult
  /\ installed \in InstallChoices
  /\ \E n \in 0..MaxFiles : \E ch \in [1..n -> FileOnDisk] :
       /\ files = [k \in 1..n |->
                     [path |-> PathOf(k, ch[k].language),
                      language |-> ch[k].language, content |-> ""]]
       /\ disk = [p \in {PathOf(k, ch[k].language) : k \in 1..n} |->
                    LET k == CHOOSE j \in 1..n : PathOf(j, ch[j].language) = p
                    IN  ch[k].on_disk]
  /\ PipeInit /\ RegIdle /\ DiscIdle /\ PcfIdle /\ PccIdle /\ UeIdle /\ MonIdle

\* Another version of a content: a different content of the same language.
StaleOf(c) == CHOOSE x \in Contents[LanguageOf(c)] \ {c} : TRUE

\* The local checkout during an in-memory run: none, the fetched revision,
\* or an older revision.
Checkouts == {"none", "current", "stale"}

OnDisk(checkout, content) ==
  CASE checkout = "none" -> "absent"
    [] checkout = "current" -> content
    [] checkout = "stale" -> StaleOf(content)

\* A source file of the checkout that is outside the batch.
UnchangedPath == PathOf(0, "java")
UnchangedContent == "JavaCall"

\* process_codebase_in_memory(files_by_language): (path, content) pairs by
\* language; a checkout holds the files of the batch and one more.
InitInMemory ==
  /\ entry = "process_codebase_in_memory" /\ pc = "extract" /\ outcome = "running"
  /\ result = NoResult
  /\ installed \in InstallChoices
  /\ \E n \in 0..MaxFiles : \E cs \in [1..n -> AllContents] : \E co \in Checkouts :
       /\ files = GroupByLanguage(
                    [k \in 1..n |->
                       [path |-> PathOf(k, LanguageOf(cs[k])),
                        language |-> LanguageOf(cs[k]), content |-> cs[k]]])
       /\ disk = [p \in {PathOf(k, LanguageOf(cs[k])) : k \in 1..n}
                          \cup (IF co = "none" THEN {} ELSE {UnchangedPath}) |->
                    IF p = UnchangedPath THEN UnchangedContent
                    ELSE LET k == CHOOSE j \in 1..n :
                                    PathOf(j, LanguageOf(cs[j])) = p
                         IN  OnDisk(co, cs[k])]
  /\ PipeInit /\ RegIdle /\ DiscIdle /\ PcfIdle /\ PccIdle /\ UeIdle /\ MonIdle

-----------------------------------------------------------------------------
(* preprocessing.py: process_codebase, process_codebase_in_memory *)

\* open(file_path, "r", encoding="utf-8") followed by file.read().
ReadFile(d, path) ==
  IF path \notin DOMAIN d \/ d[path] = "absent" THEN "FileNotFoundError"
  ELSE IF d[path] = "undecodable" THEN "UnicodeDecodeError"
  ELSE d[path]

IsError(x) == x \in {"FileNotFoundError", "UnicodeDecodeError", "ValueError",
                     "AttributeError", "HTTPError", "APIError",
                     "ServiceUnavailable", "OSError"}

Raise(e) ==
  /\ outcome' = e
  /\ pc' = "done"

\* The entries that run process_changed_files.
PcfEntries == {"process_changed_files", "monitor"}

\* A variant in which the extraction loop is left after its first file.
LoopDone_after_first(n, batch) == n > 1 \/ n > Len(batch)

\* The extraction loop has run over the whole batch.
LoopDone(n, batch) == n > Len(batch)

\* The body of both extraction loops once the content is at hand: the call
\* of process_code_content and the four accumulations.
Accumulate(f, content) ==
  IF create_treesitter(f.language, installed) # "ok"
  THEN /\ Raise("ValueError")
       /\ UNCHANGED << next_file, all_class_data, all_method_data, all_class_names,
                       all_method_names, parsed, parsed_tree >>
  ELSE LET r == process_code_content(f.path, content, f.language)
       IN  /\ parsed' = ParseContent(f.language, content)
           /\ parsed_tree' = content
           /\ all_class_data' = all_class_data \o r.class_data
           /\ all_method_data' = all_method_data \o r.method_data
           /\ all_class_names' = all_class_names \cup r.class_names
           /\ all_method_names' = all_method_names \cup r.method_names
           /\ next_file' = next_file + 1
           /\ UNCHANGED << pc, outcome >>

\* process_codebase, one iteration of "for file_path, language in files".
ExtractFromDisk ==
  /\ entry = "process_codebase" /\ pc = "extract"
  /\ ~LoopDone(next_file, files)
  /\ LET content == ReadFile(disk, files[next_file].path)
     IN  IF IsError(content)
         THEN /\ Raise(content)
              /\ UNCHANGED << next_file, all_class_data, all_method_data, all_class_names,
                              all_method_names, parsed, parsed_tree >>
         ELSE Accumulate(files[next_file], content)
  /\ UNCHANGED << entry, result, installed, disk, files, fr_files, fr_next,
                  fr_class_names, fr_method_names, references,
                  regVars, discVars, pcfVars, pccVars,
                  ueVars, monVars >>

\* process_codebase_in_memory, one iteration of the nested loops over
\* files_by_language.
ExtractFromMemory ==
  /\ entry \in {"process_codebase_in_memory"} \cup PcfEntries
  /\ pc = "extract"
  /\ ~LoopDone(next_file, files)
  /\ Accumulate(files[next_file], files[next_file].content)
  /\ UNCHANGED << entry, result, installed, disk, files, fr_files, fr_next,
                  fr_class_names, fr_method_names, references,
                  regVars, discVars, pcfVars, pccVars,
                  ueVars, monVars >>

\* A variant that hands the resolver every source file of the checkout.
ResolverFileList_checkout(batch) ==
  IF UnchangedPath \in DOMAIN disk
  THEN Append(batch, [path |-> UnchangedPath, language |-> "java",
                      content |-> ""])
  ELSE batch

\* The file list handed to find_references: the (path, language) pairs of
\* the batch, in its order.
ResolverFileList(batch) == batch

\* find_references, up to the grouping of the files by language: fresh
\* maps, copies of the two name sets, files_by_language.
FindReferencesStart ==
  /\ pc = "extract"
  /\ LoopDone(next_file, files)
  /\ references' = NoRefs
  /\ fr_class_names' = all_class_names
  /\ fr_method_names' = all_method_names
  /\ fr_files' = GroupByLanguage(ResolverFileList(files))
  /\ fr_next' = 1
  /\ pc' = "resolve"
  /\ UNCHANGED << entry, outcome, result, installed, disk, files, next_file,
                  all_class_data, all_method_data, all_class_names,
                  all_method_names, parsed, parsed_tree,
                  regVars, discVars, pcfVars, pccVars,
                  ueVars, monVars >>

\* find_references, one file: the extractor of its language, the file read
\* from the local disk, and the walk of its tree.
FindReferencesFile ==
  /\ pc = "resolve"
  /\ fr_next <= Len(fr_files)
  /\ LET f == fr_files[fr_next]
         code == ReadFile(disk, f.path)
     IN  IF create_treesitter(f.language, installed) # "ok"
         THEN Raise("ValueError") /\ UNCHANGED << references, fr_next >>
         ELSE IF IsError(code)
         THEN Raise(code) /\ UNCHANGED << references, fr_next >>
         ELSE /\ references' = WalkFile(code, f.path, fr_class_names,
                                        fr_method_names, references)
              /\ fr_next' = fr_next + 1
              /\ UNCHANGED << pc, outcome >>
  /\ UNCHANGED << entry, result, installed, disk, files, next_file,
                  all_class_data, all_method_data, all_class_names,
                  all_method_names, parsed, parsed_tree, fr_files,
                  fr_class_names, fr_method_names, regVars, discVars, pcfVars, pccVars,
                  ueVars, monVars >>

\* The return of find_references and map_references_to_data on its value.
MapReferences ==
  /\ entry # "find_references"
  /\ pc = "resolve"
  /\ fr_next > Len(fr_files)
  /\ result' = map_references_to_data(all_class_data, all_method_data, references)
  /\ outcome' = "return"
  /\ pc' = "done"
  /\ UNCHANGED << entry, pipeVars, regVars, discVars, pcfVars, pccVars,
                  ueVars, monVars >>

-----------------------------------------------------------------------------
(* preprocessing.py: find_references called on its own *)

\* The names of the model's contents, and two the contents never declare.
ClassNameChoices == {"A", "B"}
MethodNameChoices == {"m", "n"}

\* find_references(file_list, class_names, method_names) with any name
\* sets: the call starts where the extraction loops end.
InitFindReferences ==
  /\ entry = "find_references" /\ pc = "extract" /\ outcome = "running"
  /\ result = NoResult
  /\ installed = GrammarPackages
  /\ \E n \in 1..MaxFiles : \E cs \in [1..n -> AllContents] :
       /\ files = [k \in 1..n |->
                     [path |-> PathOf(k, LanguageOf(cs[k])),
                      language |-> LanguageOf(cs[k]), content |-> ""]]
       /\ disk = [p \in {PathOf(k, LanguageOf(cs[k])) : k \in 1..n} |->
                    LET k == CHOOSE j \in 1..n : PathOf(j, LanguageOf(cs[j])) = p
                    IN  cs[k]]
       /\ next_file = n + 1
  /\ all_class_names \in SUBSET ClassNameChoices
  /\ all_method_names \in SUBSET MethodNameChoices
  /\ all_class_data = << >> /\ all_method_data = << >>
  /\ parsed = NoParse /\ parsed_tree = ""
  /\ fr_files = << >> /\ fr_next = 1
  /\ fr_class_names = {} /\ fr_method_names = {}
  /\ references = NoRefs
  /\ RegIdle /\ DiscIdle /\ PcfIdle /\ PccIdle /\ UeIdle /\ MonIdle

\* "return references" to a direct caller.
FindReferencesReturn ==
  /\ entry = "find_references"
  /\ pc = "resolve"
  /\ fr_next > Len(fr_files)
  /\ outcome' = "return"
  /\ pc' = "done"
  /\ UNCHANGED << entry, result, pipeVars, regVars, discVars, pcfVars, pccVars,
                  ueVars, monVars >>

-----------------------------------------------------------------------------
(* preprocessing.py: map_references_to_data called on its own *)

\* The k-th class record and the k-th method record of a call: every record
\* comes from a file of its own.
ClassRecord(k, class_name) ==
  [ file_path |-> PathOf(k, "java"), class_name |-> class_name,
    constructor_declaration |-> "", method_declarations |-> << >>,
    source_code |-> "", references |-> << >> ]

MethodRecord(k, class_name, name) ==
  [ file_path |-> PathOf(k, "java"), class_name |-> class_name, name |-> name,
    doc_comment |-> << >>, source_code |-> "", references |-> << >> ]

\* A reference list of the resolver for a name: no entry, or one reference.
RefChoices(names) ==
  {[n \in chosen |-> << [file |-> PathOf(1, "java"), line |-> 1, column |-> 1,
                         text |-> n] >>] : chosen \in SUBSET names}

\* map_references_to_data(class_data, method_data, references) on any
\* records and any reference maps.
InitMapReferences ==
  /\ entry = "map_references_to_data" /\ pc = "resolve" /\ outcome = "running"
  /\ result = NoResult
  /\ installed = GrammarPackages
  /\ disk = << >> /\ files = << >> /\ next_file = 1
  /\ \E n \in 0..MaxRecords : \E cn \in [1..n -> ClassNameChoices] :
       all_class_data = [k \in 1..n |-> ClassRecord(k, cn[k])]
  /\ \E n \in 0..MaxRecords :
     \E cn \in [1..n -> ClassNameChoices \cup {""}] :
     \E mn \in [1..n -> MethodNameChoices] :
       all_method_data = [k \in 1..n |-> MethodRecord(k, cn[k], mn[k])]
  /\ \E rc \in RefChoices({"A"}) : \E rm \in RefChoices(MethodNameChoices) :
       references = [class |-> rc, method |-> rm]
  /\ all_class_names = {} /\ all_method_names = {}
  /\ parsed = NoParse /\ parsed_tree = ""
  /\ fr_files = << >> /\ fr_next = 1
  /\ fr_class_names = ClassNameChoices /\ fr_method_names = MethodNameChoices
  /\ RegIdle /\ DiscIdle /\ PcfIdle /\ PccIdle /\ UeIdle /\ MonIdle

-----------------------------------------------------------------------------
(* treesitter.py: Treesitter.create_treesitter called on its own *)

InitCreateTreesitter ==
  /\ entry = "create_treesitter" /\ pc = "construct" /\ outcome = "running"
  /\ result = NoResult
  /\ installed \in SUBSET GrammarPackages
  /\ ts_language \in LanguageEnum
  /\ extractor = ""
  /\ disk = << >> /\ files = << >>
  /\ PipeInit /\ DiscIdle /\ PcfIdle /\ PccIdle /\ UeIdle /\ MonIdle

\* Treesitter.create_treesitter(language): the constructor returns the
\* extractor of the language or raises.
CreateTreesitter ==
  /\ entry = "create_treesitter" /\ pc = "construct"
  /\ IF create_treesitter(ts_language, installed) = "ok"
     THEN /\ extractor' = ts_language
          /\ outcome' = "return"
          /\ pc' = "done"
     ELSE /\ Raise(create_treesitter(ts_language, installed))
          /\ UNCHANGED extractor
  /\ UNCHANGED << entry, result, pipeVars, ts_language, discVars, pcfVars, pccVars,
                  ueVars, monVars >>

-----------------------------------------------------------------------------
(* preprocessing.py: build_spec, load_files *)

\* A file or directory name with the suffix pathlib splits off it.
Name(stem, suffix) == [stem |-> stem, suffix |-> suffix]

GitignoreName == Name(".gitignore", "")

\* The entries a root may hold: relative path (its parts) and whether the
\* entry is a regular file.
File(parts) == [rel |-> parts, is_file |-> TRUE]
Dir(parts) == [rel |-> parts, is_file |-> FALSE]

OptionalFiles ==
  { File(<<Name("a", ".py")>>),
    File(<<Name("notes", ".txt")>>),
    File(<<Name("build", ""), Name("gen", ".py")>>) }

\* A .gitignore line: "*<suffix>", "<name>/" or "<name>", possibly negated.
Pat(neg, kind, arg) == [neg |-> neg, kind |-> kind, arg |-> arg]

\* The contents a root .gitignore has in the model.
GitignoreTexts ==
  { << >>,
    << Pat(FALSE, "suffix", ".txt") >>,
    << Pat(FALSE, "suffix", ".py") >>,
    << Pat(FALSE, "dir", Name("build", "")) >>,
    << Pat(FALSE, "suffix", ".py"), Pat(TRUE, "name", Name("a", ".py")) >>,
    << Pat(FALSE, "dir", Name("build", "")), Pat(FALSE, "suffix", ".txt") >> }

\* A .gitignore that is missing, or that exists with one of the texts.
GitignoreChoices(texts) ==
  {[exists |-> FALSE, lines |-> << >>]}
    \cup {[exists |-> TRUE, lines |-> x] : x \in texts}

\* pathspec: whether one pattern line matches a relative path.
PatternMatches(pat, rel) ==
  CASE pat.kind = "suffix" -> rel[Len(rel)].suffix = pat.arg
    [] pat.kind = "dir"    -> \E k \in 1..(Len(rel) - 1) : rel[k] = pat.arg
    [] pat.kind = "name"   -> \E k \in 1..Len(rel) : rel[k] = pat.arg

\* spec.match_file(rel): the last line that matches decides; a negated
\* line re-includes the path.
match_file(lines, rel) ==
  LET hits == {k \in 1..Len(lines) : PatternMatches(lines[k], rel)}
  IN  /\ hits # {}
      /\ ~lines[CHOOSE k \in hits : \A j \in hits : j <= k].neg

\* build_spec(root): the lines of every .gitignore under the root but those
\* with "venv" among their path parts, in one matcher.
build_spec(gi_files) ==
  LET NotVenv(g) == \A k \in 1..Len(g.rel) : g.rel[k] # Name("venv", "")
      kept == SelectSeq(gi_files, NotVenv)
      cat[k \in 0..Len(kept)] ==
        IF k = 0 THEN << >> ELSE cat[k - 1] \o kept[k].lines
  IN  cat[Len(kept)]

\* The parent directories of an entry.
Parents(e) == {Dir(SubSeq(e.rel, 1, k)) : k \in 1..(Len(e.rel) - 1)}

InitLoadFiles ==
  /\ entry = "load_files" /\ pc = "build_spec" /\ outcome = "running"
  /\ result = NoResult
  /\ installed = GrammarPackages
  /\ disk = << >> /\ files = << >>
  /\ \E present \in SUBSET OptionalFiles :
     \E root_gi \in GitignoreChoices(GitignoreTexts) :
     \E venv_gi \in GitignoreChoices({<< Pat(FALSE, "suffix", ".py") >>}) :
       LET gis == (IF ~root_gi.exists THEN << >>
                   ELSE << [rel |-> <<GitignoreName>>, lines |-> root_gi.lines] >>)
                  \o
                  (IF ~venv_gi.exists THEN << >>
                   ELSE << [rel |-> <<Name("venv", ""), GitignoreName>>,
                            lines |-> venv_gi.lines] >>)
           all == present \cup {File(gis[k].rel) : k \in 1..Len(gis)}
       IN  /\ gitignore = gis
           /\ fs_entries = all \cup UNION {Parents(e) : e \in all}
  /\ ignore_spec = << >> /\ lf_todo = {} /\ lf_path = NoEntry /\ lf_files = << >>
  /\ PipeInit /\ RegIdle /\ PcfIdle /\ PccIdle /\ UeIdle /\ MonIdle

\* load_files, "spec = build_spec(root)" and "files = []".
LoadFilesBuildSpec ==
  /\ entry = "load_files" /\ pc = "build_spec"
  /\ ignore_spec' = build_spec(gitignore)
  /\ lf_todo' = fs_entries
  /\ lf_files' = << >>
  /\ pc' = "walk"
  /\ UNCHANGED << entry, outcome, result, pipeVars, regVars, fs_entries,
                  gitignore, lf_path, pcfVars, pccVars,
                  ueVars, monVars >>

\* A variant of the walk that consults no ignore rule.
IgnoreSkips_never(lines, rel) == FALSE

\* "if spec.match_file(rel): continue"
IgnoreSkips(lines, rel) == match_file(lines, rel)

\* load_files, one iteration of "for path in root.rglob('*')".
LoadFilesStep ==
  /\ entry = "load_files" /\ pc = "walk"
  /\ \E e \in lf_todo :
       LET lang == get_language_from_extension(e.rel[Len(e.rel)].suffix)
       IN  /\ lf_path' = e
           /\ IF IgnoreSkips(ignore_spec, e.rel) \/ ~e.is_file
              THEN /\ lf_todo' = lf_todo \ {e}
                   /\ UNCHANGED << lf_files, pc, outcome >>
              ELSE IF IsError(lang)
              THEN /\ Raise(lang)
                   /\ UNCHANGED << lf_files, lf_todo >>
              ELSE /\ lf_todo' = lf_todo \ {e}
                   /\ lf_files' = IF lang = "None" THEN lf_files
                                  ELSE Append(lf_files, [path |-> e.rel, language |-> lang])
                   /\ UNCHANGED << pc, outcome >>
  /\ UNCHANGED << entry, result, pipeVars, regVars, fs_entries, gitignore,
                  ignore_spec, pcfVars, pccVars,
                  ueVars, monVars >>

\* load_files, "return files".
LoadFilesReturn ==
  /\ entry = "load_files" /\ pc = "walk"
  /\ lf_todo = {}
  /\ outcome' = "return"
  /\ pc' = "done"
  /\ UNCHANGED << entry, result, pipeVars, regVars, discVars, pcfVars, pccVars,
                  ueVars, monVars >>

-----------------------------------------------------------------------------
(* update_codebase.py: file_content, process_changed_files *)

\* The paths a change list of the model names: two source files and a text
\* file.
ChangePaths ==
  { PathOf(1, "python"), PathOf(2, "java"), [name |-> 3, ext |-> ".txt"] }

\* The statuses of a change tuple.
Statuses == {"A", "M", "D"}

\* file_content(owner, repo, path, ref): None on a 404, an exception on any
\* other error status, else the text of the file at the head commit.
file_content(path) ==
  {"None", "HTTPError"}
    \cup (IF path.ext = ".py" THEN Contents["python"]
          ELSE IF path.ext = ".java" THEN Contents["java"]
          ELSE {"PlainText"})

InitProcessChangedFiles ==
  /\ entry = "process_changed_files" /\ pc = "download" /\ outcome = "running"
  /\ result = NoResult
  /\ installed = GrammarPackages
  /\ disk \in {[p \in ChangePaths |-> "absent"]}
  /\ files = << >>
  /\ \E n \in 0..MaxChanges :
       changed_files \in [1..n -> [status : Statuses, path : ChangePaths]]
  /\ pcf_next = 1 /\ fetched = << >>
  /\ PipeInit /\ RegIdle /\ DiscIdle /\ PccIdle /\ UeIdle /\ MonIdle

\* A variant that downloads the file of every tuple, deletions included.
SkipsStatus_none(status) == FALSE

\* "if status == 'D': continue"
SkipsStatus(status) == status = "D"

\* process_changed_files, one iteration of "for status, path in changed_files".
\* fetched records, per tuple, what file_content answered ("" when it was
\* not called).
DownloadStep ==
  /\ entry \in PcfEntries /\ pc = "download"
  /\ pcf_next <= Len(changed_files)
  /\ LET c == changed_files[pcf_next]
     IN  IF SkipsStatus(c.status)
         THEN /\ fetched' = Append(fetched, "")
              /\ pcf_next' = pcf_next + 1
              /\ UNCHANGED << files, pc, outcome >>
         ELSE \E content \in file_content(c.path) :
                LET lang == get_language_from_extension(c.path.ext)
                IN  /\ fetched' = Append(fetched, content)
                    /\ IF content = "HTTPError"
                       THEN Raise(content) /\ UNCHANGED << files, pcf_next >>
                       ELSE IF content = "None"
                       THEN /\ pcf_next' = pcf_next + 1
                            /\ UNCHANGED << files, pc, outcome >>
                       ELSE IF IsError(lang)
                       THEN Raise(lang) /\ UNCHANGED << files, pcf_next >>
                       ELSE /\ pcf_next' = pcf_next + 1
                            /\ files' =
                                 IF lang = "None" THEN files
                                 ELSE Append(files, [path |-> c.path,
                                                     language |-> lang,
                                                     content |-> content])
                            /\ UNCHANGED << pc, outcome >>
  /\ UNCHANGED << entry, result, installed, disk, next_file, all_class_data,
                  all_method_data, all_class_names, all_method_names, parsed,
                  parsed_tree, fr_files, fr_next, fr_class_names,
                  fr_method_names, references, regVars, discVars, changed_files, pccVars,
                  ueVars, monVars >>

\* process_changed_files after the loop: two empty lists when nothing was
\* kept, else the call of process_codebase_in_memory on files_by_language.
DownloadDone ==
  /\ entry \in PcfEntries /\ pc = "download"
  /\ pcf_next > Len(changed_files)
  /\ IF files = << >>
     THEN /\ result' = NoResult
          /\ outcome' = "return"
          /\ pc' = "done"
          /\ UNCHANGED files
     ELSE /\ files' = GroupByLanguage(files)
          /\ pc' = "extract"
          /\ UNCHANGED << result, outcome >>
  /\ UNCHANGED << entry, installed, disk, next_file, all_class_data,
                  all_method_data, all_class_names, all_method_names, parsed,
                  parsed_tree, fr_files, fr_next, fr_class_names,
                  fr_method_names, references, regVars, discVars, pcfVars, pccVars,
                  ueVars, monVars >>

-----------------------------------------------------------------------------
(* preprocessing.py: process_code_content called on its own *)

\* The contents process_code_content is given when called on its own.
PccContents == AllContents \cup AllDocContents

\* The arguments of one call.
PccArgs(k, c) ==
  [file_path |-> PathOf(k, LanguageOf(c)), content |-> c,
   language |-> LanguageOf(c)]

\* Three calls in one process: one extraction of any file, then the same
\* file path, content and language twice.
InitProcessCodeContent ==
  /\ entry = "process_code_content" /\ pc = "call" /\ outcome = "running"
  /\ result = NoResult
  /\ installed \in InstallChoices
  /\ disk = << >> /\ files = << >>
  /\ \E c0 \in PccContents : \E c \in PccContents :
       pcc_calls = << PccArgs(1, c0), PccArgs(2, c), PccArgs(2, c) >>
  /\ pcc_returns = << >>
  /\ PipeInit /\ RegIdle /\ DiscIdle /\ PcfIdle /\ UeIdle /\ MonIdle

\* One call of process_code_content: the extractor is built, the content
\* parsed, and the four values returned.
ProcessCodeContentCall ==
  /\ entry = "process_code_content" /\ pc = "call"
  /\ Len(pcc_returns) < Len(pcc_calls)
  /\ LET a == pcc_calls[Len(pcc_returns) + 1]
     IN  IF create_treesitter(a.language, installed) # "ok"
         THEN /\ Raise("ValueError")
              /\ UNCHANGED << pcc_returns, parsed, parsed_tree >>
         ELSE /\ pcc_returns' =
                   Append(pcc_returns,
                          process_code_content(a.file_path, a.content, a.language))
              /\ parsed' = ParseContent(a.language, a.content)
              /\ parsed_tree' = a.content
              /\ UNCHANGED << pc, outcome >>
  /\ UNCHANGED << entry, result, installed, disk, files, next_file,
                  all_class_data, all_method_data, all_class_names,
                  all_method_names, fr_files, fr_next, fr_class_names,
                  fr_method_names, references, regVars, discVars, pcfVars,
                  pcc_calls, ueVars, monVars >>

\* The caller has made its calls.
ProcessCodeContentDone ==
  /\ entry = "process_code_content" /\ pc = "call"
  /\ Len(pcc_returns) = Len(pcc_calls)
  /\ outcome' = "return"
  /\ pc' = "done"
  /\ UNCHANGED << entry, result, pipeVars, regVars, discVars, pcfVars, pccVars,
                  ueVars, monVars >>

-----------------------------------------------------------------------------
(* update_codebase.py: update_embeddings; create_tables.py: bulk_insert *)

\* The rows of a chunk size the insert loops use.
CHUNK == 500

\* The text column of a row: the second argument is the label of the frame
\* (the method frame adds the method name).
EmbeddingText(r, label) ==
  IF label = "Method"
  THEN << "File", r.file_path, "Class", r.class_name, "Method", r.name,
          "Source Code", r.source_code >>
  ELSE << "File", r.file_path, "Class", r.class_name,
          "Source Code", r.source_code >>

\* A frame after its text and embedding columns were added.
Embedded(rows, label) ==
  [k \in 1..Len(rows) |->
     rows[k] @@ [text |-> EmbeddingText(rows[k], label),
                 embedding |-> << "embedding", EmbeddingText(rows[k], label) >>]]

\* methods_df["file_path"].unique(): the file paths in order of first
\* appearance.
UniquePaths(rows) ==
  LET u[k \in 0..Len(rows)] ==
        IF k = 0 THEN << >>
        ELSE IF \E j \in 1..(k - 1) : rows[j].file_path = rows[k].file_path
        THEN u[k - 1]
        ELSE Append(u[k - 1], rows[k].file_path)
  IN  u[Len(rows)]

\* "MATCH (n) WHERE n.file_path = $path DETACH DELETE n"
DeleteByPath(nodes, path) ==
  LET kept[k \in 0..Len(nodes)] ==
        IF k = 0 THEN << >>
        ELSE IF nodes[k].row.file_path = path THEN kept[k - 1]
        ELSE Append(kept[k - 1], nodes[k])
  IN  kept[Len(nodes)]

\* bulk_insert(tx, label, rows): one node per row, with the row as its
\* properties.
bulk_insert(nodes, label, rows) ==
  nodes \o [k \in 1..Len(rows) |-> [label |-> label, row |-> rows[k]]]

\* "for start in range(0, len(df), CHUNK)": bulk_insert of each chunk.
RECURSIVE InsertChunks(_, _, _, _)
InsertChunks(nodes, label, rows, start) ==
  IF start >= Len(rows) THEN nodes
  ELSE InsertChunks(
         bulk_insert(nodes, label,
                     SubSeq(rows, start + 1,
                            IF start + CHUNK < Len(rows) THEN start + CHUNK
                            ELSE Len(rows))),
         label, rows, start + CHUNK)

\* The records and the nodes of the model: a class A and a method m of A
\* in file k, with source text `source_code`.
UeClassRow(k, source_code) ==
  [ClassRecord(k, "A") EXCEPT !.source_code = source_code]

UeMethodRow(k, source_code) ==
  [MethodRecord(k, "A", "m") EXCEPT !.source_code = source_code]

\* What the database holds before the call, in a fixed order: per file, a
\* method node and a class node of an earlier revision, each present or
\* not.
EarlierNodes ==
  << [label |-> "Method", row |-> Embedded(<< UeMethodRow(1, "old") >>, "Method")[1]],
     [label |-> "Class",  row |-> Embedded(<< UeClassRow(1, "old") >>, "Class")[1]],
     [label |-> "Method", row |-> Embedded(<< UeMethodRow(2, "old") >>, "Method")[1]],
     [label |-> "Class",  row |-> Embedded(<< UeClassRow(2, "old") >>, "Class")[1]] >>

Selected(nodes, chosen) ==
  LET sel[k \in 0..Len(nodes)] ==
        IF k = 0 THEN << >>
        ELSE IF k \in chosen THEN Append(sel[k - 1], nodes[k]) ELSE sel[k - 1]
  IN  sel[Len(nodes)]

StoreChoices == {Selected(EarlierNodes, chosen) : chosen \in SUBSET (1..4)}

\* update_embeddings(class_data, method_data, repo_path) on any records of
\* two files and any database.
InitUpdateEmbeddings ==
  /\ entry = "update_embeddings" /\ pc = "embed" /\ outcome = "running"
  /\ result = NoResult
  /\ installed = GrammarPackages
  /\ disk = << >> /\ files = << >>
  /\ store \in StoreChoices
  /\ \E n \in 0..MaxRecords :
       ue_classes \in [1..n -> {UeClassRow(k, "new") : k \in 1..2}]
  /\ \E n \in 0..MaxRecords :
       ue_methods \in [1..n -> {UeMethodRow(k, "new") : k \in 1..2}]
  /\ ue_delete = << >>
  /\ PipeInit /\ RegIdle /\ DiscIdle /\ PcfIdle /\ PccIdle /\ MonIdle

\* The entries that run update_embeddings.
UeEntries == {"update_embeddings", "monitor"}

\* The return of update_embeddings: to its caller, which in monitor goes on
\* to save_state.
UeReturn ==
  IF entry = "monitor"
  THEN pc' = "save" /\ UNCHANGED outcome
  ELSE pc' = "done" /\ outcome' = "return"

\* The failures of a step of update_embeddings.
EmbedOutcomes == {"ok", "APIError", "ServiceUnavailable"}
SessionOutcomes == {"ok", "ServiceUnavailable"}

\* update_embeddings up to the delete loop: the two frames, the early
\* return when both are empty, the text and embedding columns, the driver
\* and the two vector indexes.
UpdateEmbeddingsEmbed ==
  /\ entry \in UeEntries /\ pc = "embed"
  /\ IF ue_methods = << >> /\ ue_classes = << >>
     THEN UeReturn /\ UNCHANGED << ue_classes, ue_methods, ue_delete >>
     ELSE \E o \in EmbedOutcomes :
            IF o # "ok"
            THEN Raise(o) /\ UNCHANGED << ue_classes, ue_methods, ue_delete >>
            ELSE /\ ue_methods' = Embedded(ue_methods, "Method")
                 /\ ue_classes' = Embedded(ue_classes, "Class")
                 /\ ue_delete' = UniquePaths(ue_methods)
                 /\ pc' = "delete"
                 /\ UNCHANGED outcome
  /\ UNCHANGED << entry, result, pipeVars, regVars, discVars, pcfVars, pccVars,
                  store, monVars >>

\* One iteration of "for file_path in methods_df['file_path'].unique()".
UpdateEmbeddingsDelete ==
  /\ entry \in UeEntries /\ pc = "delete"
  /\ ue_delete # << >>
  /\ \E o \in SessionOutcomes :
       IF o # "ok"
       THEN Raise(o) /\ UNCHANGED << store, ue_delete >>
       ELSE /\ store' = DeleteByPath(store, Head(ue_delete))
            /\ ue_delete' = Tail(ue_delete)
            /\ UNCHANGED << pc, outcome >>
  /\ UNCHANGED << entry, result, pipeVars, regVars, discVars, pcfVars, pccVars,
                  ue_classes, ue_methods, monVars >>

\* The insert loop over the method frame.
UpdateEmbeddingsInsertMethods ==
  /\ entry \in UeEntries /\ pc = "delete"
  /\ ue_delete = << >>
  /\ \E o \in SessionOutcomes :
       IF o # "ok" /\ ue_methods # << >>
       THEN Raise(o) /\ UNCHANGED store
       ELSE /\ store' = InsertChunks(store, "Method", ue_methods, 0)
            /\ pc' = "insert_classes"
            /\ UNCHANGED outcome
  /\ UNCHANGED << entry, result, pipeVars, regVars, discVars, pcfVars, pccVars,
                  ue_classes, ue_methods, ue_delete, monVars >>

\* The insert loop over the class frame, and the return.
UpdateEmbeddingsInsertClasses ==
  /\ entry \in UeEntries /\ pc = "insert_classes"
  /\ \E o \in SessionOutcomes :
       IF o # "ok" /\ ue_classes # << >>
       THEN Raise(o) /\ UNCHANGED store
       ELSE /\ store' = InsertChunks(store, "Class", ue_classes, 0)
            /\ UeReturn
  /\ UNCHANGED << entry, result, pipeVars, regVars, discVars, pcfVars, pccVars,
                  ue_classes, ue_methods, ue_delete, monVars >>

-----------------------------------------------------------------------------
(* update_codebase.py: load_state, save_state, compare_commits, monitor *)

\* Largest number of iterations of the monitor loop.
MaxPolls == 2

\* The commits of the watched branch.
Commits == {"c0", "c1", "c2"}

\* load_state(): the saved commit, None when STATE_FILE is absent or is not
\* valid JSON.
load_state(file) == IF file \in {"absent", "corrupt"} THEN "None" ELSE file

\* save_state(sha): open(STATE_FILE, "w") may fail and leave the file as it
\* was; once opened the file is empty, so a failing write leaves a file
\* that is not valid JSON; else the file holds sha.
SaveOutcomes == {"ok", "open fails", "write fails"}

save_state(file, sha, o) ==
  CASE o = "ok" -> sha
    [] o = "open fails" -> file
    [] o = "write fails" -> "corrupt"

\* The "status" values of the files of a comparison, and
\* f["status"][0].upper().
CompareStatuses == {"modified", "removed"}

StatusLetter(status) ==
  CASE status = "added" -> "A"
    [] status = "modified" -> "M"
    [] status = "removed" -> "R"
    [] status = "renamed" -> "R"

\* The paths a comparison names.
MonitorPaths == { PathOf(1, "python"), [name |-> 3, ext |-> ".txt"] }

\* compare_commits(owner, repo, base, head): the (status letter, path)
\* tuples of the files the comparison lists, or an exception on an error
\* status.
compare_commits ==
  {[raised |-> "HTTPError", changes |-> << >>]} \cup
  {[raised |-> "", changes |-> c] :
     c \in UNION {[1..n -> {[status |-> StatusLetter(s), path |-> p] :
                              s \in CompareStatuses, p \in MonitorPaths}] :
                    n \in 0..MaxChanges}}

\* latest_commit(owner, repo, branch): the head of the branch, or an
\* exception on an error status.
latest_commit == Commits \cup {"HTTPError"}

\* monitor(repo_url), at the top of its loop.
InitMonitor ==
  /\ entry = "monitor" /\ pc = "poll" /\ outcome = "running"
  /\ result = NoResult
  /\ installed = GrammarPackages
  /\ disk \in {[p \in MonitorPaths |-> "absent"]}
  /\ files = << >>
  /\ state_file \in {"absent"} \cup Commits
  /\ head_sha = "None" /\ last_sha = "None" /\ polls = 0
  /\ PipeInit /\ RegIdle /\ DiscIdle /\ PcfIdle /\ PccIdle /\ UeIdle

\* The locals of the calls an iteration made are gone when it ends.
IterationEnds ==
  /\ polls' = polls + 1
  /\ pc' = "poll"
  /\ result' = NoResult
  /\ files' = << >> /\ next_file' = 1
  /\ all_class_data' = << >> /\ all_method_data' = << >>
  /\ all_class_names' = {} /\ all_method_names' = {}
  /\ parsed' = NoParse /\ parsed_tree' = ""
  /\ fr_files' = << >> /\ fr_next' = 1
  /\ fr_class_names' = {} /\ fr_method_names' = {}
  /\ references' = NoRefs
  /\ changed_files' = << >> /\ pcf_next' = 1 /\ fetched' = << >>
  /\ ue_classes' = << >> /\ ue_methods' = << >> /\ ue_delete' = << >>
  /\ UNCHANGED << entry, installed, disk, regVars, discVars, pccVars, store,
                  state_file >>

\* monitor, the head of an iteration: latest_commit, load_state and the two
\* tests on last_sha.
MonitorPoll ==
  /\ entry = "monitor" /\ pc = "poll"
  /\ polls < MaxPolls
  /\ \E h \in latest_commit :
       IF IsError(h)
       THEN /\ Raise(h)
            /\ head_sha' = "None" /\ last_sha' = "None"
       ELSE /\ head_sha' = h
            /\ last_sha' = load_state(state_file)
            /\ outcome' = "running"
            /\ pc' = IF load_state(state_file) = h THEN "sleep"
                     ELSE IF load_state(state_file) # "None" THEN "compare"
                     ELSE "save"
  /\ UNCHANGED << entry, result, pipeVars, regVars, discVars, pcfVars, pccVars,
                  ueVars, state_file, polls >>

\* monitor, "changes = compare_commits(...)" and "if changes:", up to the
\* call of process_changed_files.
MonitorCompare ==
  /\ entry = "monitor" /\ pc = "compare"
  /\ \E r \in compare_commits :
       IF IsError(r.raised)
       THEN Raise(r.raised) /\ UNCHANGED changed_files
       ELSE /\ changed_files' = r.changes
            /\ pc' = IF r.changes = << >> THEN "save" ELSE "download"
            /\ UNCHANGED outcome
  /\ UNCHANGED << entry, result, pipeVars, regVars, discVars, pcf_next, fetched,
                  pccVars, ueVars, monVars >>

\* monitor, after process_changed_files returned: the call of
\* update_embeddings when there is data, else on to save_state.
MonitorProcessed ==
  /\ entry = "monitor" /\ pc = "done" /\ outcome = "return"
  /\ outcome' = "running"
  /\ IF result.classes # << >> \/ result.methods # << >>
     THEN /\ ue_classes' = result.classes
          /\ ue_methods' = result.methods
          /\ pc' = "embed"
     ELSE /\ pc' = "save"
          /\ UNCHANGED << ue_classes, ue_methods >>
  /\ UNCHANGED << entry, result, pipeVars, regVars, discVars, pcfVars, pccVars,
                  store, ue_delete, monVars >>

\* monitor, "save_state(head_sha)".
MonitorSave ==
  /\ entry = "monitor" /\ pc = "save"
  /\ \E o \in SaveOutcomes :
       /\ state_file' = save_state(state_file, head_sha, o)
       /\ IF o = "ok" THEN pc' = "sleep" /\ UNCHANGED outcome
          ELSE Raise("OSError")
  /\ UNCHANGED << entry, result, pipeVars, regVars, discVars, pcfVars, pccVars,
                  ueVars, head_sha, last_sha, polls >>

\* monitor, the sleep that ends an iteration without exception.
MonitorSleep ==
  /\ entry = "monitor" /\ pc = "sleep"
  /\ IterationEnds
  /\ head_sha' = "None" /\ last_sha' = "None"
  /\ UNCHANGED outcome

\* monitor, "except Exception": the message and the sleep. outcome keeps
\* the exception, and head_sha and last_sha the range of the iteration,
\* until the next iteration assigns them.
MonitorExcept ==
  /\ entry = "monitor" /\ pc = "done" /\ IsError(outcome)
  /\ IterationEnds
  /\ UNCHANGED << outcome, head_sha, last_sha >>

\* monitor, "except KeyboardInterrupt: break" during the sleep.
MonitorStop ==
  /\ entry = "monitor" /\ pc = "poll"
  /\ pc' = "stopped"
  /\ outcome' = "return"
  /\ UNCHANGED << entry, result, pipeVars, regVars, discVars, pcfVars, pccVars,
                  ueVars, monVars >>

-----------------------------------------------------------------------------
Init ==
  \/ InitProcessCodebase
  \/ InitInMemory
  \/ InitCreateTreesitter
  \/ InitLoadFiles
  \/ InitFindReferences
  \/ InitMapReferences
  \/ InitProcessChangedFiles
  \/ InitProcessCodeContent
  \/ InitUpdateEmbeddings
  \/ InitMonitor

Next ==
  \/ ExtractFromDisk
  \/ ExtractFromMemory
  \/ FindReferencesStart
  \/ FindReferencesFile
  \/ MapReferences
  \/ FindReferencesReturn
  \/ CreateTreesitter
  \/ LoadFilesBuildSpec
  \/ LoadFilesStep
  \/ LoadFilesReturn
  \/ DownloadStep
  \/ DownloadDone
  \/ ProcessCodeContentCall
  \/ ProcessCodeContentDone
  \/ UpdateEmbeddingsEmbed
  \/ UpdateEmbeddingsDelete
  \/ UpdateEmbeddingsInsertMethods
  \/ UpdateEmbeddingsInsertClasses
  \/ MonitorPoll
  \/ MonitorCompare
  \/ MonitorProcessed
  \/ MonitorSave
  \/ MonitorSleep
  \/ MonitorExcept
  \/ MonitorStop

Spec == Init /\ [][Next]_vars

-----------------------------------------------------------------------------
(* Properties *)

\* The entries that run the extraction loops before find_references.
PipelineEntries ==
  {"process_codebase", "process_codebase_in_memory", "process_changed_files"}

\* The content the extraction loop is given for the k-th file of the batch.
ExtractedContent(k) ==
  IF entry = "process_codebase" THEN ReadFile(disk, files[k].path)
  ELSE files[k].content

\* What the k-th file of the batch declares.
DeclaredBy(k) ==
  process_code_content(files[k].path, ExtractedContent(k), files[k].language)

BatchClassNames == UNION {DeclaredBy(k).class_names : k \in 1..Len(files)}
BatchMethodNames == UNION {DeclaredBy(k).method_names : k \in 1..Len(files)}

\* C1: in the full path and in the in-memory path, while find_references
\* runs every file of the batch has been extracted, and the name sets the
\* resolver works with are the union of the class names and of the method
\* names declared by all files of the batch, from the first walked file to
\* the last.
C1_ResolutionAfterFullExtraction ==
  (entry \in PipelineEntries /\ pc = "resolve") =>
    /\ next_file = Len(files) + 1
    /\ fr_class_names = BatchClassNames
    /\ fr_method_names = BatchMethodNames
    /\ all_class_names = fr_class_names
    /\ all_method_names = fr_method_names

\* C1 witness: an in-memory batch of two files that declare different
\* methods, with the walk of the first file done and the second pending.
C1_Witness ==
  /\ entry = "process_codebase_in_memory" /\ pc = "resolve"
  /\ Len(files) = 2 /\ fr_next = 2
  /\ DeclaredBy(1).method_names # DeclaredBy(2).method_names
  /\ fr_method_names = {"m", "n"}
  /\ references.method # << >>

\* C2: every key of the class-reference map is in the class-name set given
\* to find_references and every key of the method-reference map is in the
\* method-name set, at every point of the walk and in the returned maps.
C2_ReferenceSoundness ==
  /\ DOMAIN references.class \subseteq fr_class_names
  /\ DOMAIN references.method \subseteq fr_method_names

\* C2 witness: find_references returned a reference for the tracked method
\* m after walking a file that calls the untracked method n.
C2_Witness ==
  /\ entry = "find_references" /\ pc = "done" /\ outcome = "return"
  /\ "m" \in DOMAIN references.method
  /\ "n" \notin fr_method_names
  /\ \E k \in 1..Len(fr_files) : disk[fr_files[k].path] = "JavaNested"

\* The call sites of `name` in a content: the nodes of the kind
\* REFERENCE_IDENTIFIERS gives for a call in the content's language whose
\* callee is the identifier `name`.
CallSites(c, name) ==
  LET t == Tree(c)
  IN  {n \in NodeIds(t) :
         /\ t[n].kind = REFERENCE_IDENTIFIERS[LanguageOf(c)].method
         /\ NameChild(t, n, "identifier") # 0
         /\ t[NameChild(t, n, "identifier")].text = name}

\* The methods a content declares.
DeclaredMethods(c) ==
  LET ms == ParseContent(LanguageOf(c), c).methods
  IN  {ms[k].name : k \in 1..Len(ms)}

\* C3 (as the specification states it): when process_codebase returns for
\* a batch of two files of one language where one file declares method m
\* and the other holds the only call of m, the method entity m carries
\* exactly one reference, at the line and column of that call site.
C3_SingleCallYieldsSingleReference ==
  (entry = "process_codebase" /\ pc = "done" /\ outcome = "return"
     /\ Len(files) = 2) =>
    \A a \in 1..2 : \A b \in 1..2 : \A name \in MethodNameChoices :
      LET ca == disk[files[a].path]
          cb == disk[files[b].path]
      IN  ( /\ a # b
            /\ files[a].language = files[b].language
            /\ name \in DeclaredMethods(ca)
            /\ name \notin DeclaredMethods(cb)
            /\ CallSites(ca, name) = {}
            /\ Cardinality(CallSites(cb, name)) = 1 )
          => \A k \in 1..Len(result.methods) :
               result.methods[k].name = name =>
                 LET site == CHOOSE n \in CallSites(cb, name) : TRUE
                     refs == result.methods[k].references
                 IN  /\ Len(refs) = 1
                     /\ refs[1].file = files[b].path
                     /\ refs[1].line = Tree(cb)[site].line + 1
                     /\ refs[1].column = Tree(cb)[site].col + 1

\* An entity list with the references left aside.
WithoutReferences(entities) ==
  [k \in 1..Len(entities) |-> [entities[k] EXCEPT !.references = << >>]]

\* What process_codebase returns for a corpus made of one readable file,
\* references aside.
FullIndexOfOne(path, content) ==
  LET r == process_code_content(path, content, LanguageOf(content))
      merged == map_references_to_data(r.class_data, r.method_data, NoRefs)
  IN  [classes |-> WithoutReferences(merged.classes),
       methods |-> WithoutReferences(merged.methods)]

\* C4 (as the specification states it): process_changed_files on one added
\* or modified tuple whose content was fetched completes and returns the
\* class and method entities process_codebase returns for the corpus made
\* of that file, references aside.
C4_IncrementalEquivalence ==
  (entry = "process_changed_files" /\ pc = "done"
     /\ Len(changed_files) = 1 /\ Len(fetched) = 1
     /\ changed_files[1].status \in {"A", "M"}
     /\ fetched[1] \in AllContents) =>
    /\ outcome = "return"
    /\ [classes |-> WithoutReferences(result.classes),
        methods |-> WithoutReferences(result.methods)]
         = FullIndexOfOne(changed_files[1].path, fetched[1])

\* A path the change list names with status D only.
OnlyDeleted(path) ==
  /\ \E k \in 1..Len(changed_files) : changed_files[k].path = path
  /\ \A k \in 1..Len(changed_files) :
       changed_files[k].path = path => changed_files[k].status = "D"

\* C5: no file kept for extraction and no entity returned by
\* process_changed_files has a path the change list names with status D
\* only, and a list of D tuples only ends with two empty entity lists.
C5_DeletionSemantics ==
  entry = "process_changed_files" =>
    /\ \A k \in 1..Len(files) : ~OnlyDeleted(files[k].path)
    /\ \A k \in 1..Len(result.classes) : ~OnlyDeleted(result.classes[k].file_path)
    /\ \A k \in 1..Len(result.methods) : ~OnlyDeleted(result.methods[k].file_path)
    /\ \A k \in 1..Len(fetched) :
         changed_files[k].status = "D" => fetched[k] = ""
    /\ (pc = "done" /\ \A k \in 1..Len(changed_files) :
                          changed_files[k].status = "D")
         => (outcome = "return" /\ result = NoResult)

\* C5 witness: a list of two D tuples was processed and two empty lists
\* were returned.
C5_Witness ==
  /\ entry = "process_changed_files" /\ pc = "done" /\ outcome = "return"
  /\ Len(changed_files) = 2
  /\ \A k \in 1..Len(changed_files) : changed_files[k].status = "D"
  /\ result = NoResult

\* C6 (as the specification states it): when a fetch of an added or
\* modified path answered "not found" and no fetch failed otherwise,
\* process_changed_files does not raise, and the entities of every other
\* fetched source file are in what it returns.
C6_NotFoundIsSkipped ==
  (entry = "process_changed_files" /\ pc = "done"
     /\ (\E k \in 1..Len(fetched) : fetched[k] = "None")
     /\ (\A k \in 1..Len(fetched) : fetched[k] # "HTTPError")) =>
    /\ outcome = "return"
    /\ \A k \in 1..Len(fetched) :
         fetched[k] \in AllContents =>
           \A name \in DeclaredMethods(fetched[k]) :
             \E j \in 1..Len(result.methods) :
               /\ result.methods[j].name = name
               /\ result.methods[j].file_path = changed_files[k].path

\* C7: no path the compiled matcher accepts is in the list load_files
\* builds, and none is handed to the extension lookup.
C7_IgnorePrecedence ==
  entry = "load_files" =>
    /\ \A k \in 1..Len(lf_files) :
         ~match_file(build_spec(gitignore), lf_files[k].path)
    /\ outcome = "AttributeError" =>
         ~match_file(build_spec(gitignore), lf_path.rel)

\* C7 witness: the walk has just passed over a regular file with a listed
\* extension that the matcher accepts.
C7_Witness ==
  /\ entry = "load_files" /\ pc = "walk" /\ outcome = "running"
  /\ lf_path.is_file
  /\ lf_path.rel[Len(lf_path.rel)].suffix \in DOMAIN FILE_EXTENSION_LANGUAGE_MAP
  /\ match_file(build_spec(gitignore), lf_path.rel)
  /\ lf_path \notin lf_todo

\* C8 (as the specification states it): at a regular file that is not
\* ignored and whose extension is not in the table, the lookup answers None
\* and load_files raises nothing.
C8_UnlistedExtensionIsSkipped ==
  (entry = "load_files" /\ lf_path # NoEntry /\ lf_path.is_file
     /\ ~match_file(build_spec(gitignore), lf_path.rel)
     /\ lf_path.rel[Len(lf_path.rel)].suffix
          \notin DOMAIN FILE_EXTENSION_LANGUAGE_MAP) =>
    /\ get_language_from_extension(lf_path.rel[Len(lf_path.rel)].suffix) = "None"
    /\ outcome \in {"running", "return"}
    /\ \A k \in 1..Len(lf_files) : lf_files[k].path # lf_path.rel

\* C9: create_treesitter for a language without an entry in
\* LANGUAGE_QUERIES ends with ValueError and builds no extractor, whichever
\* grammar packages are installed.
C9_UnregisteredLanguageFails ==
  (entry = "create_treesitter" /\ pc = "done"
     /\ ts_language \notin DOMAIN LANGUAGE_QUERIES) =>
    /\ outcome = "ValueError"
    /\ extractor = ""

\* C9 witness: the constructor was called for LanguageEnum.UNKNOWN with
\* every grammar package installed, and has finished.
C9_Witness ==
  /\ entry = "create_treesitter" /\ pc = "done"
  /\ ts_language = "unknown"
  /\ installed = GrammarPackages

\* The proper ancestors of a node, by the parent links alone.
AncestorsOf(t, node) ==
  LET anc[c \in 0..Len(t)] ==
        IF c = 0 THEN {}
        ELSE IF t[c].parent = 0 THEN {}
        ELSE {t[c].parent} \cup anc[t[c].parent]
  IN  anc[node]

\* C10: every method Treesitter.parse returned with a class name has,
\* among the classes of the same result, one with that name whose
\* declaration node is a proper ancestor of the method's node.
C10_ClassMembership ==
  parsed_tree # "" =>
    \A k \in 1..Len(parsed.methods) :
      parsed.methods[k].class_name # "" =>
        \E j \in 1..Len(parsed.classes) :
          /\ parsed.classes[j].name = parsed.methods[k].class_name
          /\ parsed.classes[j].node
               \in AncestorsOf(Tree(parsed_tree), parsed.methods[k].node)

\* C10 witness: parse returned, for a file with a class nested in a class,
\* two classes and a method with a class name.
C10_Witness ==
  /\ parsed_tree = "JavaNested"
  /\ \E k \in 1..Len(parsed.methods) : parsed.methods[k].class_name # ""
  /\ Len(parsed.classes) = 2

\* The siblings before a node, nearest first.
SiblingsAbove(t, node) ==
  LET up == InOrder({i \in Children(t, t[node].parent) : i < node})
  IN  [k \in 1..Len(up) |-> up[Len(up) + 1 - k]]

\* The kinds of a comment node in the four grammars.
CommentKinds == {"comment", "block_comment", "line_comment"}

\* A declaration with two single-line comments on the two lines directly
\* above it and, after a blank line, another comment further up.
TwoAdjacentCommentsAndAFartherOne(t, node) ==
  LET s == SiblingsAbove(t, node)
  IN  /\ Len(s) >= 3
      /\ \A k \in 1..3 : t[s[k]].kind \in CommentKinds
      /\ t[s[1]].line + 1 = t[node].line
      /\ t[s[2]].line + 1 = t[s[1]].line
      /\ t[s[3]].line + 1 < t[s[2]].line

\* C11 (as the specification states it): for a declaration preceded by a
\* comment, a blank line and two consecutive single-line comments directly
\* above it, the doc comment is the two adjacent comments, top to bottom,
\* without the farther one.
C11_DocCommentContiguity ==
  parsed_tree # "" =>
    \A k \in 1..Len(parsed.methods) :
      LET t == Tree(parsed_tree)
          node == parsed.methods[k].node
          s == SiblingsAbove(t, node)
      IN  TwoAdjacentCommentsAndAFartherOne(t, node) =>
            parsed.methods[k].doc_comment = << t[s[2]].text, t[s[1]].text >>

C13_UndecodableFileDoesNotAbort ==
  (entry = "process_codebase" /\ pc = "done"
     /\ installed = GrammarPackages
     /\ (\E k \in 1..Len(files) : disk[files[k].path] = "undecodable")
     /\ (\A k \in 1..Len(files) : disk[files[k].path] # "absent")) =>
    outcome = "return"

\* Whether the extraction of the k-th file of the batch fails: the file
\* cannot be read, or no extractor can be built for its language.
ExtractionFails(k) ==
  \/ create_treesitter(files[k].language, installed) # "ok"
  \/ entry = "process_codebase" /\ IsError(ReadFile(disk, files[k].path))

\* C14 (as the specification states it): when the extraction of exactly
\* one file of a batch of two fails, the batch still ends with a result,
\* in which the failed file has no entity and the other file has all the
\* methods it declares.
C14_FailureIsolatedToFile ==
  (entry \in {"process_codebase", "process_codebase_in_memory"}
     /\ pc = "done" /\ Len(files) = 2) =>
    \A bad \in 1..2 : \A good \in 1..2 :
      (bad # good /\ ExtractionFails(bad) /\ ~ExtractionFails(good)) =>
        /\ outcome = "return"
        /\ \A k \in 1..Len(result.methods) :
             result.methods[k].file_path # files[bad].path
        /\ \A name \in DeclaredBy(good).method_names :
             \E k \in 1..Len(result.methods) :
               /\ result.methods[k].name = name
               /\ result.methods[k].file_path = files[good].path

\* The entries that end with the value of map_references_to_data.
MergeEntries == PipelineEntries \cup {"map_references_to_data"}

\* The reference list the resolver produced for a method name.
ResolvedFor(name) ==
  IF name \in DOMAIN references.method THEN references.method[name] ELSE << >>

\* The method entities of the result with a given key.
ResultMethods(class_name, name) ==
  {k \in 1..Len(result.methods) :
     /\ result.methods[k].class_name = class_name
     /\ result.methods[k].name = name}

\* C15: when two method records given to map_references_to_data have the
\* same name and different class names, the result holds exactly one
\* method entity for each of the two (class name, method name) pairs, and
\* both carry the reference list the resolver produced for the name.
C15_SameNameMethodsKeptApart ==
  (entry \in MergeEntries /\ pc = "done" /\ outcome = "return") =>
    \A i \in 1..Len(all_method_data) : \A j \in 1..Len(all_method_data) :
      ( /\ all_method_data[i].name = all_method_data[j].name
        /\ all_method_data[i].class_name # all_method_data[j].class_name ) =>
        LET name == all_method_data[i].name
            ei == ResultMethods(all_method_data[i].class_name, name)
            ej == ResultMethods(all_method_data[j].class_name, name)
        IN  /\ Cardinality(ei) = 1 /\ Cardinality(ej) = 1
            /\ ei # ej
            /\ \A k \in ei \cup ej :
                 result.methods[k].references = ResolvedFor(name)

\* C15 witness: map_references_to_data returned method m of class A and
\* method m of class B, both with the one reference resolved for m.
C15_Witness ==
  /\ entry = "map_references_to_data" /\ pc = "done" /\ outcome = "return"
  /\ Len(result.methods) = 2
  /\ result.methods[1].name = "m" /\ result.methods[2].name = "m"
  /\ result.methods[1].class_name = "A" /\ result.methods[2].class_name = "B"
  /\ Len(result.methods[1].references) = 1
  /\ result.methods[1].references = result.methods[2].references

\* The kinds of the claim on reference classification: the identifier kind
\* and the call kind REFERENCE_IDENTIFIERS gives for a language, and the
\* kinds of a type use.
IdentifierKind(lang) == REFERENCE_IDENTIFIERS[lang].class
CallKinds(lang) == {REFERENCE_IDENTIFIERS[lang].method}
TypeUseKinds == {"type", "class_type", "object_creation_expression"}

\* The references the walk of the k-th file is to emit for a name, given
\* the name set it belongs to and the parent kinds that make a use of it.
ReferencesDue(k, name, names, parent_kinds) ==
  LET t == Tree(disk[fr_files[k].path])
  IN  {[file |-> fr_files[k].path, line |-> t[n].line + 1,
        column |-> t[n].col + 1, text |-> t[t[n].parent].text] :
         n \in {i \in NodeIds(t) :
                  /\ t[i].kind = IdentifierKind(fr_files[k].language)
                  /\ t[i].text = name
                  /\ name \in names
                  /\ t[i].parent # 0
                  /\ t[t[i].parent].kind \in parent_kinds}}

\* The references of a map for a name, as a set.
Emitted(map, name) ==
  IF name \in DOMAIN map THEN {map[name][k] : k \in 1..Len(map[name])} ELSE {}

\* C16 (as the specification states it): after the walk of every file, the
\* class references are exactly those of the identifier nodes whose text is
\* a tracked class name and whose parent is a type use, and the method
\* references exactly those of the identifier nodes whose text is a tracked
\* method name and whose parent is a call of the file's language.
C16_ReferenceClassification ==
  (entry \in PipelineEntries \cup {"find_references"}
     /\ pc = "done" /\ outcome = "return") =>
    /\ \A name \in ClassNameChoices :
         Emitted(references.class, name) =
           UNION {ReferencesDue(k, name, fr_class_names, TypeUseKinds) :
                    k \in 1..Len(fr_files)}
    /\ \A name \in MethodNameChoices :
         Emitted(references.method, name) =
           UNION {ReferencesDue(k, name, fr_method_names,
                                CallKinds(fr_files[k].language)) :
                    k \in 1..Len(fr_files)}

\* The kinds of sibling the backward scan is to pass: comments and
\* expression statements.
ScanThroughKinds == CommentKinds \cup {"expression_statement"}

\* The nodes a doc comment may take its text from: those of the siblings
\* above the node, nearest first, up to the first sibling of another kind
\* (that sibling and everything above it left out).
DocSourceNodes(t, node) ==
  LET s == SiblingsAbove(t, node)
      stops == {k \in 1..Len(s) : t[s[k]].kind \notin ScanThroughKinds}
      last == IF stops = {} THEN Len(s)
              ELSE (CHOOSE k \in stops : \A j \in stops : k <= j) - 1
  IN  UNION {Subtree(t, s[k]) : k \in 1..last}

\* C17 (as the specification states it): every text in the doc comment of a
\* method comes from the siblings between the method and the first
\* preceding sibling that is neither a comment nor an expression statement;
\* nothing comes from that sibling, from inside it, or from above it.
C17_DocScanStops ==
  parsed_tree # "" =>
    \A k \in 1..Len(parsed.methods) :
      LET t == Tree(parsed_tree)
          doc == parsed.methods[k].doc_comment
      IN  \A j \in 1..Len(doc) :
            \E n \in DocSourceNodes(t, parsed.methods[k].node) :
              t[n].text = doc[j]

\* The classes of a parse result whose node is an ancestor of a node, by
\* their position in the result (capture order).
ClassesAround(t, classes, node) ==
  {j \in 1..Len(classes) : classes[j].node \in AncestorsOf(t, node)}

\* C18: a method returned by Treesitter.parse has the empty class name
\* exactly when no captured class node is an ancestor of its node, and
\* otherwise the name of the first captured class, in capture order, that
\* is an ancestor.
C18_EnclosingClass ==
  parsed_tree # "" =>
    \A k \in 1..Len(parsed.methods) :
      LET around == ClassesAround(Tree(parsed_tree), parsed.classes,
                                  parsed.methods[k].node)
      IN  IF around = {}
          THEN parsed.methods[k].class_name = ""
          ELSE parsed.methods[k].class_name =
                 parsed.classes[CHOOSE j \in around :
                                  \A i \in around : j <= i].name

\* C18 witness: parse returned a method that lies inside two captured
\* classes, one nested in the other, named after the first captured one.
C18_Witness ==
  /\ parsed_tree # ""
  /\ \E k \in 1..Len(parsed.methods) :
       /\ ClassesAround(Tree(parsed_tree), parsed.classes,
                        parsed.methods[k].node) = {1, 2}
       /\ parsed.methods[k].class_name = parsed.classes[1].name
       /\ parsed.classes[1].name # parsed.classes[2].name

\* The entries that run the in-memory coordinator.
InMemoryEntries == {"process_codebase_in_memory", "process_changed_files"}

\* The paths of the batch the in-memory coordinator was given.
BatchPaths == {files[k].path : k \in 1..Len(files)}

\* The file paths of the references a list of returned entities carries.
ReferenceFiles(entities) ==
  UNION {{entities[k].references[j].file :
            j \in 1..Len(entities[k].references)} : k \in 1..Len(entities)}

\* The change tuple at position k was added or modified, its content was
\* fetched, and its extension has a language.
FetchedSource(k) ==
  /\ changed_files[k].status \in {"A", "M"}
  /\ k <= Len(fetched)
  /\ fetched[k] \notin {"", "None", "HTTPError"}
  /\ changed_files[k].path.ext \in {Ext(l) : l \in FileLanguages}

\* C19: in a run of the in-memory coordinator the resolver walks files of
\* the batch only, and every reference attached to a returned entity has
\* the path of a file of the batch; in process_changed_files the batch
\* holds only added or modified paths whose content was fetched and whose
\* extension is supported.
C19_ResolverWalksChangedFilesOnly ==
  entry \in InMemoryEntries =>
    /\ \A k \in 1..Len(fr_files) : fr_files[k].path \in BatchPaths
    /\ ReferenceFiles(result.classes) \subseteq BatchPaths
    /\ ReferenceFiles(result.methods) \subseteq BatchPaths
    /\ entry = "process_changed_files" =>
         \A k \in 1..Len(files) :
           \E i \in 1..Len(changed_files) :
             changed_files[i].path = files[k].path /\ FetchedSource(i)

\* C19 witness: the in-memory coordinator returned an entity with a
\* reference while the checkout held a source file outside the batch that
\* calls the same method.
C19_Witness ==
  /\ entry \in InMemoryEntries /\ pc = "done" /\ outcome = "return"
  /\ UnchangedPath \in DOMAIN disk
  /\ CallSites(disk[UnchangedPath], "m") # {}
  /\ \E k \in 1..Len(result.methods) :
       /\ result.methods[k].name = "m"
       /\ result.methods[k].references # << >>

\* C20 (as the specification states it): map_references_to_data returns
\* exactly as many class entities and method entities as it was given.
C20_MergeKeepsEveryEntity ==
  (entry \in MergeEntries /\ pc = "done" /\ outcome = "return") =>
    /\ Len(result.classes) = Len(all_class_data)
    /\ Len(result.methods) = Len(all_method_data)

\* C21 (as the specification states it): every tag of the
\* extension-to-language table is a member of LanguageEnum with an entry in
\* LANGUAGE_QUERIES, and when discovery looks up the extension of a regular
\* file that is not ignored and whose extension is in the table, it gets
\* such a tag, for which the extractor can be created.
C21_DiscoveredTagsAreRegistered ==
  entry = "load_files" =>
    /\ \A e \in DOMAIN FILE_EXTENSION_LANGUAGE_MAP :
         /\ FILE_EXTENSION_LANGUAGE_MAP[e] \in LanguageEnum
         /\ FILE_EXTENSION_LANGUAGE_MAP[e] \in DOMAIN LANGUAGE_QUERIES
    /\ (lf_path # NoEntry /\ lf_path.is_file
          /\ ~match_file(build_spec(gitignore), lf_path.rel)
          /\ lf_path.rel[Len(lf_path.rel)].suffix
               \in DOMAIN FILE_EXTENSION_LANGUAGE_MAP) =>
         LET tag == get_language_from_extension(
                      lf_path.rel[Len(lf_path.rel)].suffix)
         IN  /\ tag \in LanguageEnum
             /\ create_treesitter(tag, GrammarPackages) = "ok"

\* What the resolver would hold after the files it has walked so far had it
\* parsed the content the extractor was given for each of them.
ResolvedFromMemory ==
  LET walked[k \in 0..Len(fr_files)] ==
        IF k = 0 THEN NoRefs
        ELSE WalkFile(fr_files[k].content, fr_files[k].path,
                      fr_class_names, fr_method_names, walked[k - 1])
  IN  walked[fr_next - 1]

\* C22 (as the specification states it): in a run of
\* process_codebase_in_memory the resolver never fails on reading a path
\* from the local file system, and the references it holds are those of
\* the in-memory contents the extractor parsed.
C22_ResolverParsesFetchedContent ==
  entry = "process_codebase_in_memory" =>
    /\ outcome \notin {"FileNotFoundError", "UnicodeDecodeError"}
    /\ (pc \in {"resolve", "done"} /\ outcome \in {"running", "return"})
         => references = ResolvedFromMemory

\* How many nodes of a sequence equal a given node.
Count(nodes, n) == Cardinality({k \in 1..Len(nodes) : nodes[k] = n})

\* The nodes the batch of update_embeddings asks for: one per method
\* record and one per class record.
BatchNodes ==
  [k \in 1..Len(ue_methods) |-> [label |-> "Method", row |-> ue_methods[k]]]
    \o [k \in 1..Len(ue_classes) |-> [label |-> "Class", row |-> ue_classes[k]]]

\* A sequence of nodes holds, at a file path, exactly the nodes another
\* holds there, as often.
SameNodesAt(held, wanted, path) ==
  /\ \A k \in 1..Len(held) :
       held[k].row.file_path = path =>
         Count(held, held[k]) = Count(wanted, held[k])
  /\ \A k \in 1..Len(wanted) :
       wanted[k].row.file_path = path =>
         Count(held, wanted[k]) = Count(wanted, wanted[k])

\* C23 (as the specification states it): when update_embeddings has
\* returned, for every file path of the batch's class or method records the
\* store holds exactly the batch's records for that path.
C23_StoreReconciled ==
  (entry = "update_embeddings" /\ pc = "done" /\ outcome = "return") =>
    \A k \in 1..Len(BatchNodes) :
      SameNodesAt(store, BatchNodes, BatchNodes[k].row.file_path)

\* The iteration of the monitor loop that is running found a saved commit
\* that differs from the head commit.
RangePending == last_sha # "None" /\ head_sha # "None" /\ last_sha # head_sha

\* The changes of the pending range have been processed and, when they gave
\* entities, every node update_embeddings was to insert is in the store.
ChangesProcessed ==
  /\ pcf_next > Len(changed_files)
  /\ ~IsError(outcome)
  /\ \A k \in 1..Len(BatchNodes) : Count(store, BatchNodes[k]) > 0

\* C24 (as the specification states it): in the monitor loop, with a saved
\* commit that differs from head, (1) STATE_FILE changes only in the
\* save_state step, to the head commit, after the changes were processed
\* and the store update completed without error; (2) a step that raises
\* leaves STATE_FILE as it was; (3) after an iteration that raised, a next
\* poll that finds the same head loads the same saved commit and compares
\* the same range.
C24_SavedCommitAdvancesAfterProcessing ==
  [][ (entry = "monitor" /\ RangePending) =>
        /\ state_file' # state_file =>
             (pc = "save" /\ state_file' = head_sha /\ ChangesProcessed)
        /\ (~IsError(outcome) /\ IsError(outcome')) => state_file' = state_file
        /\ (pc = "poll" /\ pc' \notin {"poll", "stopped"} /\ IsError(outcome)
              /\ head_sha' = head_sha) =>
             (pc' = "compare" /\ last_sha' = last_sha) ]_vars

====
